---- MODULE Spec2Model ----
(***************************************************************************)
(* A model of the shhh task orchestration engine: the module Registry and  *)
(* its dependency resolution (internal/module, Registry), the Runner that  *)
(* executes the steps of the resolved modules (internal/module, Runner),   *)
(* and the Bridge that runs them in a goroutine and hands lifecycle events *)
(* to the front end over a channel (internal/tui/wizard, Bridge), and the  *)
(* WizardModel that starts the Bridge (internal/tui/wizard, WizardModel).  *)
(***************************************************************************)
EXTENDS Integers, Sequences, FiniteSets, TLC

VARIABLES
    modules,    \* Registry.modules: ID -> *Module (a function on the registered IDs)
    order,      \* Registry.order: the IDs in insertion order
    regLog,     \* history: the modules handed to Register, oldest first
    req,        \* the ids argument of the latest ResolveDeps call
    res,        \* what the latest ResolveDeps call returned
    dryRun,     \* Runner.dryRun
    preCallback,\* Runner.preCallback is set (not nil)
    callback,   \* Runner.callback is set (not nil)
    pc,         \* where the goroutine running RunModules stands
    sorted,     \* RunModules: the resolved order
    mi,         \* RunModules: the index into sorted of the module being run
    si,         \* RunModule: the index i of the step being processed
    skipped,    \* RunModule: the skipped argument of the pending callback
    result,     \* RunModule: the ModuleResult being filled
    results,    \* RunModules: the results appended so far, then returned
    runErr,     \* RunModules: the error returned
    trace,      \* history: the hooks, checks and applies invoked, oldest first
    msgs,       \* Bridge.msgs: the events buffered in the channel, oldest first
    closed,     \* Bridge.msgs has been closed
    cancelled,  \* Bridge.ctx has been cancelled
    handed,     \* history: the events send put into the channel, oldest first
    received,   \* history: what the NextMsg commands returned, oldest first
    workers,    \* history: the goroutines started by Start (go b.run())
    screen,     \* WizardModel.screen
    bridge,     \* WizardModel.bridge is set (not nil)
    quitting,   \* WizardModel.quitting
    confirms,   \* history: the PickerConfirmMsg messages Update was given
    pending,    \* the NextMsg commands Update returned that have not returned yet
    delivered,  \* history: the events of the Bridge Update was given
    summary,    \* WizardModel.summary: its results and its err
    exited,     \* Update returned tea.Quit: the program has ended
    selected,   \* PickerModel.selected: the IDs whose entry is true
    cursor,     \* PickerModel.cursor
    requiredBy, \* pickerItem.requiredBy of each item of PickerModel.items
    inflight,   \* history: the ModuleIDs of the PickerConfirmMsg commands the picker returned
    lastKey,    \* history: the key of the latest key message given to the picker on its own
    prev,       \* history: the outcome of the run before the one under way
    installed,  \* State.InstalledModules
    resAt       \* history: the length of regLog at the latest ResolveDeps call

registryVars == <<modules, order, regLog, req, res>>

runnerVars == <<dryRun, preCallback, callback, pc, sorted, mi, si, skipped,
                result, results, runErr, trace>>

bridgeVars == <<msgs, closed, cancelled, handed, received>>

pickerVars == <<selected, cursor, requiredBy, inflight, lastKey>>

wizardVars == <<screen, bridge, quitting, confirms, pending, delivered, summary,
                exited, pickerVars>>

vars == <<registryVars, runnerVars, bridgeVars, workers, wizardVars, prev,
          installed, resAt>>

-----------------------------------------------------------------------------
(* Bounds of the model.                                                    *)

\* the module IDs, listed in the order in which a registry of the resolution
\* specification first registers them
IDs == <<"a", "b", "c">>

IDSet == {IDs[i] : i \in 1..Len(IDs)}

\* Register calls in a history of the Register specification
MaxRegister == 4

\* dependency entries in one registry, over all its modules
MaxEdges == 2

\* IDs in one ResolveDeps request
MaxReq == 2

\* steps in one module
MaxSteps == 2

SeqsUpTo(S, n) == UNION {[1..k -> S] : k \in 0..n}

Range(s) == {s[i] : i \in 1..Len(s)}

Perms(S) == {p \in [1..Cardinality(S) -> S] : Range(p) = S}

-----------------------------------------------------------------------------
(* Module and Registry.                                                    *)

Module(id, name, deps, steps) ==
    [ID |-> id, Name |-> name, Dependencies |-> deps, Steps |-> steps]

NewRegistry == [modules |-> <<>>, order |-> <<>>]

\* Register with the existence test dropped: every call appends to order
RegisterAlwaysAppends(r, m) ==
    [modules |-> [id \in DOMAIN r.modules \cup {m.ID} |->
                     IF id = m.ID THEN m ELSE r.modules[id]],
     order   |-> Append(r.order, m.ID)]

Register(r, m) ==
    [modules |-> [id \in DOMAIN r.modules \cup {m.ID} |->
                     IF id = m.ID THEN m ELSE r.modules[id]],
     order   |-> IF m.ID \in DOMAIN r.modules THEN r.order
                 ELSE Append(r.order, m.ID)]

\* Get: the module stored under id, or nil
Nil == [ID |-> "<nil>"]

Get(r, id) == IF id \in DOMAIN r.modules THEN r.modules[id] ELSE Nil

-----------------------------------------------------------------------------
(* ResolveDeps.                                                            *)

NoErr == [kind |-> "none", id |-> ""]

MissingErr(id) == [kind |-> "missing", id |-> id]

CycleErr == [kind |-> "cycle", id |-> ""]

RECURSIVE collect(_, _, _), collectDeps(_, _, _, _)

\* collect that passes over an unregistered ID instead of failing
collectSkipsMissing(mods, id, st) ==
    IF id \in st.needed \/ id \notin DOMAIN mods THEN st
    ELSE collectDeps(mods, mods[id].Dependencies, 1,
                     [st EXCEPT !.needed = @ \cup {id}])

\* the closure collect: st is the needed map so far and the error returned
collect(mods, id, st) ==
    IF id \in st.needed THEN st
    ELSE IF id \notin DOMAIN mods THEN [st EXCEPT !.err = MissingErr(id)]
    ELSE collectDeps(mods, mods[id].Dependencies, 1,
                     [st EXCEPT !.needed = @ \cup {id}])

\* the loop left after its first element
collectDepsFirstOnly(mods, deps, i, st) ==
    IF st.err.kind # "none" \/ i > Len(deps) \/ i > 1 THEN st
    ELSE collectDeps(mods, deps, i + 1, collect(mods, deps[i], st))

\* the loop over m.Dependencies (and over ids), left at the first error
collectDeps(mods, deps, i, st) ==
    IF st.err.kind # "none" \/ i > Len(deps) THEN st
    ELSE collectDeps(mods, deps, i + 1, collect(mods, deps[i], st))

\* the entries of a dependency list that are needed, repetitions counted
NeededEntries(deps, needed) ==
    Cardinality({j \in 1..Len(deps) : deps[j] \in needed})

RECURSIVE inDegreeLoop(_, _, _, _, _)

\* the two loops "for id := range needed", which visit the keys of the map
\* in the sequence it
inDegreeLoop(mods, needed, it, i, deg) ==
    IF i > Len(it) THEN deg
    ELSE inDegreeLoop(mods, needed, it, i + 1,
            [deg EXCEPT ![it[i]] = @ + NeededEntries(mods[it[i]].Dependencies, needed)])

\* the in-degrees with no dependency counted
inDegreeZero(mods, needed, it) == [id \in needed |-> 0]

inDegree(mods, needed, it) ==
    inDegreeLoop(mods, needed, it, 1, [id \in needed |-> 0])

\* the seeding loop run over the needed map instead of r.order
seedQueueMapOrder(ord, needed, deg, it) ==
    SelectSeq(it, LAMBDA id : id \in needed /\ deg[id] = 0)

\* the queue seeded with the zero in-degree nodes, in insertion order
seedQueue(ord, needed, deg, it) ==
    SelectSeq(ord, LAMBDA id : id \in needed /\ deg[id] = 0)

RECURSIVE scan(_, _, _, _, _, _)

\* the loop over r.order after cur is popped: the first entry of a needed
\* module's dependencies equal to cur decrements its in-degree, and a
\* module whose in-degree reaches zero joins the back of the queue
scan(mods, ord, needed, cur, k, st) ==
    IF k > Len(ord) THEN st
    ELSE LET id == ord[k]
             d  == st.deg[id] - 1
         IN  IF id \in needed /\ cur \in Range(mods[id].Dependencies)
             THEN scan(mods, ord, needed, cur, k + 1,
                       [deg   |-> [st.deg EXCEPT ![id] = d],
                        queue |-> IF d = 0 THEN Append(st.queue, id) ELSE st.queue])
             ELSE scan(mods, ord, needed, cur, k + 1, st)

\* the queue popped at its back
popBack(queue) == [cur |-> queue[Len(queue)], rest |-> SubSeq(queue, 1, Len(queue) - 1)]

\* cur := queue[0]; queue = queue[1:]
popFront(queue) == [cur |-> Head(queue), rest |-> Tail(queue)]

RECURSIVE kahn(_, _, _, _, _, _)

\* the loop "for len(queue) > 0"
kahn(mods, ord, needed, deg, queue, done) ==
    IF queue = <<>> THEN done
    ELSE LET p  == popFront(queue)
             st == scan(mods, ord, needed, p.cur, 1, [deg |-> deg, queue |-> p.rest])
         IN  kahn(mods, ord, needed, st.deg, st.queue, Append(done, p.cur))

\* the final test with the comparison dropped: whatever was sorted is returned
finishPartial(done, needed) == [order |-> done, err |-> NoErr]

\* if len(sorted) != len(needed) { return nil, cycle error }
finish(done, needed) ==
    IF Len(done) # Cardinality(needed) THEN [order |-> <<>>, err |-> CycleErr]
    ELSE [order |-> done, err |-> NoErr]

\* the loop over ids that fills the needed map, left at the first error
collectAll(r, ids) == collectDeps(r.modules, ids, 1, [needed |-> {}, err |-> NoErr])

\* the keys of the needed map the call ranges over (none when collect fails)
NeededKeys(r, ids) ==
    IF collectAll(r, ids).err.kind # "none" THEN {} ELSE collectAll(r, ids).needed

\* ResolveDeps(ids) on the registry r; iter is the sequence in which the
\* runtime enumerates the keys of the needed map
ResolveDeps(r, ids, iter) ==
    LET c == collectAll(r, ids)
    IN  IF c.err.kind # "none" THEN [order |-> <<>>, err |-> c.err]
        ELSE LET deg == inDegree(r.modules, c.needed, iter)
                 q   == seedQueue(r.order, c.needed, deg, iter)
             IN  finish(kahn(r.modules, r.order, c.needed, deg, q, <<>>), c.needed)

-----------------------------------------------------------------------------
(* The registry seen as one value.                                         *)

registry == [modules |-> modules, order |-> order]

\* the dependency entries of a registry, over all its modules
Edges(r) ==
    LET S[i \in 0..Len(r.order)] ==
            IF i = 0 THEN 0 ELSE S[i - 1] + Len(r.modules[r.order[i]].Dependencies)
    IN  S[Len(r.order)]

NoResult == [order |-> <<>>, err |-> [kind |-> "nocall", id |-> ""]]

-----------------------------------------------------------------------------
(* Step, ModuleResult and the Runner.                                      *)

\* a Step: its Name, and whether Check and DryRun are set (not nil); Run
\* is always set
Step(name, check, dry) == [Name |-> name, Check |-> check, DryRun |-> dry]

StepNames == <<"s1", "s2", "s3", "s4">>

\* a step with Check, Run and DryRun
FullStep(i) == Step(StepNames[i], TRUE, TRUE)

\* a step with Name and Run only
BareStep(i) == Step(StepNames[i], FALSE, FALSE)

\* the step lists of the model: up to MaxSteps steps, each full or bare
StepLists ==
    UNION {{[i \in 1..n |-> IF i \in bare THEN BareStep(i) ELSE FullStep(i)] :
               bare \in SUBSET (1..n)} : n \in 0..MaxSteps}

\* the error step.Run returned for a step of the module mod
RunFailure(mod, name) == [kind |-> "run", id |-> mod, step |-> name]

\* fmt.Errorf("step %q in module %q failed: %w", ...): the error RunModule
\* wraps around the error of a failed step
StepErr(mod, name) == [kind |-> "step", id |-> mod, step |-> name]

ModuleResult(id, completed, skippedN, total, failedStep, err) ==
    [ModuleID |-> id, Completed |-> completed, Skipped |-> skippedN,
     Total |-> total, FailedStep |-> failedStep, Err |-> err]

\* result := ModuleResult{ModuleID: mod.ID, Total: len(mod.Steps)}
NewModuleResult(mod) == ModuleResult(mod.ID, 0, 0, Len(mod.Steps), "", NoErr)

NoModuleResult == ModuleResult("", 0, 0, 0, "", NoErr)

\* the error RunModules returns when ResolveDeps fails
ResolvingErr(err) == [kind |-> "resolving", id |-> err.id, cause |-> err.kind]

\* an entry of the history of calls: the hook, check or apply invoked, the
\* module and the index of the step, the value returned (check, apply) or
\* the skipped argument (post), and the err argument (post)
Call(op, mod, i, val, err) ==
    [op |-> op, mod |-> mod, step |-> i, val |-> val, err |-> err]

\* the module and the step RunModule is processing
curMod == modules[sorted[mi]]

curStep == curMod.Steps[si]

\* the disposition with the check honoured in dry-run mode only
DispositionSkipsWhenDry(step, checked, dry) ==
    IF ~dry THEN "run"
    ELSE IF step.Check /\ checked THEN "skip"
    ELSE "dry"

\* the disposition with a satisfied check ignored
DispositionNoSkip(step, checked, dry) == IF dry THEN "dry" ELSE "run"

\* the disposition with the dry-run test after the call of Run
DispositionNoDryRun(step, checked, dry) ==
    IF step.Check /\ checked THEN "skip" ELSE "run"

\* what the check of the step processed decides: a check that is set and
\* returns true skips the step, else dry-run mode describes it, else it runs
Disposition(step, checked, dry) ==
    IF step.Check /\ checked THEN "skip"
    ELSE IF dry THEN "dry"
    ELSE "run"

\* Applied with the failure of Run not recorded in the result
AppliedIgnoresError(r, step, ok) == [r EXCEPT !.Completed = @ + 1]

\* the result after step.Run returned: the failed step and the wrapped
\* error on an error, else one more completed step
Applied(r, step, ok) ==
    IF ok THEN [r EXCEPT !.Completed = @ + 1]
    ELSE [r EXCEPT !.FailedStep = step.Name, !.Err = StepErr(r.ModuleID, step.Name)]

\* RunModule going on to the next step whatever the step returned
StopsModuleNever(r) == FALSE

\* RunModule returning after the first step of a dry run
StopsModuleWhenDry(r) == r.Err.kind # "none" \/ dryRun

\* RunModule returns after the callback of a failed step
StopsModule(r) == r.Err.kind # "none"

\* a callback that is never told of the error
CallbackErrNil(r, step) == NoErr

\* the err argument of the callback after a step: the error step.Run
\* returned, or nil
CallbackErr(r, step) ==
    IF r.Err = NoErr THEN NoErr ELSE RunFailure(r.ModuleID, step.Name)

\* RunModules going on whatever ResolveDeps returned
ResolveFailedIgnored(r) == FALSE

\* sorted, err := reg.ResolveDeps(moduleIDs); if err != nil
ResolveFailed(r) == r.err.kind # "none"

\* RunModules going on to the next module whatever the result
StopsRunNever(r) == FALSE

\* if result.Err != nil, after the result was appended
StopsRun(r) == r.Err.kind # "none"

-----------------------------------------------------------------------------
(* The operations as actions.                                              *)

Names == {"v1", "v2"}

Requests == SeqsUpTo(IDSet, MaxReq)

\* the runner before RunModules is called
\* NewBridge: an empty channel, a context not cancelled
BridgeIdle ==
    /\ msgs = <<>>
    /\ closed = FALSE
    /\ cancelled = FALSE
    /\ handed = <<>>
    /\ received = <<>>

\* no run before this one: no call made, no result, no step applied
NoPrev ==
    [runs |-> 0, trace |-> <<>>, results |-> <<>>, runErr |-> NoErr, applied |-> {}]

\* SummaryModel without results and without error
NoSummary == [results |-> <<>>, err |-> NoErr]

\* a picker without items
PickerIdle ==
    /\ selected = {}
    /\ cursor = 0
    /\ requiredBy = <<>>
    /\ inflight = <<>>
    /\ lastKey = ""

\* a wizard on the picker, with no Bridge yet
WizardIdle ==
    /\ screen = "picker"
    /\ bridge = FALSE
    /\ quitting = FALSE
    /\ confirms = 0
    /\ pending = 0
    /\ delivered = 0
    /\ summary = NoSummary
    /\ exited = FALSE
    /\ PickerIdle

RunnerIdle ==
    /\ pc = "idle"
    /\ sorted = <<>>
    /\ mi = 0
    /\ si = 0
    /\ skipped = FALSE
    /\ result = NoModuleResult
    /\ results = <<>>
    /\ runErr = NoErr
    /\ trace = <<>>

InitRegistry ==
    /\ modules = NewRegistry.modules
    /\ order = NewRegistry.order
    /\ regLog = <<>>
    /\ req = <<>>
    /\ res = NoResult
    /\ dryRun = FALSE
    /\ preCallback = FALSE
    /\ callback = FALSE
    /\ RunnerIdle
    /\ BridgeIdle
    /\ WizardIdle
    /\ workers = 0
    /\ prev = NoPrev
    /\ installed = <<>>
    /\ resAt = 0

\* r.Register(m), the call recorded in the history
RegisterLogged(m) ==
    /\ Len(regLog) < MaxRegister
    /\ LET r == Register(registry, m)
       IN  /\ modules' = r.modules
           /\ order' = r.order
    /\ regLog' = Append(regLog, m)
    /\ UNCHANGED <<workers, wizardVars, prev, installed, resAt, req, res, runnerVars, bridgeVars>>

\* r.Register(m) on a registry whose IDs are first registered in the order
\* of IDs; the result of an earlier ResolveDeps call is dropped
RegisterCall(m) ==
    /\ m.ID \in DOMAIN modules \/ (Len(order) < Len(IDs) /\ m.ID = IDs[Len(order) + 1])
    /\ LET r == Register(registry, m)
       IN  /\ modules' = r.modules
           /\ order' = r.order
    /\ req' = <<>>
    /\ res' = NoResult
    /\ UNCHANGED <<workers, wizardVars, prev, installed, resAt, regLog, runnerVars, bridgeVars>>

\* the dependency entries a module registered under id may have for the
\* registry to stay within MaxEdges
EdgesLeft(id) ==
    MaxEdges - Edges(registry)
        + (IF id \in DOMAIN modules THEN Len(modules[id].Dependencies) ELSE 0)

\* a ResolveDeps that keeps its result for the next call with the same ids
ResolveDepsCached(ids, iter) ==
    /\ req' = ids
    /\ res' = IF res.err.kind # "nocall" /\ ids = req
              THEN res
              ELSE ResolveDeps(registry, ids, iter)
    /\ resAt' = Len(regLog)
    /\ UNCHANGED <<workers, wizardVars, prev, installed, modules, order, regLog,
                   runnerVars, bridgeVars>>

\* r.ResolveDeps(ids)
ResolveDepsCall(ids, iter) ==
    /\ req' = ids
    /\ res' = ResolveDeps(registry, ids, iter)
    /\ resAt' = Len(regLog)
    /\ UNCHANGED <<workers, wizardVars, prev, installed, modules, order, regLog, runnerVars, bridgeVars>>

NextRegister ==
    \E id \in IDSet, n \in Names : RegisterLogged(Module(id, n, <<>>, <<>>))

RegisterSpec == InitRegistry /\ [][NextRegister]_vars

NextResolve ==
    \/ \E id \in IDSet : \E deps \in SeqsUpTo(IDSet, EdgesLeft(id)) :
          RegisterCall(Module(id, "v1", deps, <<>>))
    \/ \E ids \in Requests : \E iter \in Perms(NeededKeys(registry, ids)) :
          ResolveDepsCall(ids, iter)

ResolveSpec == InitRegistry /\ [][NextResolve]_vars

\* the IDs of the registries whose modules are registered again
ReregisterIDs == {"a", "b"}

\* Register is called for any of two IDs, with no dependency or one, a
\* registered ID again included, and ResolveDeps for one ID, in any order;
\* the result of a call stays with its caller while Register is called
NextReregister ==
    \/ \E id \in ReregisterIDs :
          \E deps \in {<<>>} \cup {<<d>> : d \in ReregisterIDs} :
              RegisterLogged(Module(id, "v1", deps, <<>>))
    \/ \E id \in ReregisterIDs : \E iter \in Perms(NeededKeys(registry, <<id>>)) :
          ResolveDepsCall(<<id>>, iter)

ReregisterSpec == InitRegistry /\ [][NextReregister]_vars

-----------------------------------------------------------------------------
(* RunModules and RunModule, one action for each call they make.           *)

\* RunModules up to its loop: ResolveDeps, and the return on its error
RunModulesCall(ids, iter) ==
    /\ pc = "idle"
    /\ req' = ids
    /\ res' = ResolveDeps(registry, ids, iter)
    /\ IF ResolveFailed(res')
       THEN /\ pc' = "returned"
            /\ runErr' = ResolvingErr(res'.err)
            /\ UNCHANGED <<sorted, mi>>
       ELSE /\ pc' = "loop"
            /\ sorted' = res'.order
            /\ mi' = 1
            /\ UNCHANGED runErr
    /\ results' = <<>>
    /\ UNCHANGED <<workers, wizardVars, prev, installed, resAt, bridgeVars, modules, order, regLog, dryRun, preCallback, callback,
                   si, skipped, result, trace>>

\* the head of the loop over sorted: return after the last module, else
\* Get the module and enter RunModule
RunModulesLoop ==
    /\ pc = "loop"
    /\ IF mi > Len(sorted)
       THEN /\ pc' = "returned"
            /\ UNCHANGED <<si, result, runErr>>
       ELSE IF Get(registry, sorted[mi]) = Nil
       THEN /\ pc' = "returned"
            /\ runErr' = MissingErr(sorted[mi])
            /\ UNCHANGED <<si, result>>
       ELSE /\ pc' = "step"
            /\ result' = NewModuleResult(Get(registry, sorted[mi]))
            /\ si' = 1
            /\ UNCHANGED runErr
    /\ UNCHANGED <<workers, wizardVars, prev, installed, resAt, registryVars, bridgeVars, dryRun, preCallback, callback, sorted, mi,
                   skipped, results, trace>>

\* the head of the loop over mod.Steps: leave it after the last step, else
\* invoke the pre-step callback when one is set
StepPre ==
    /\ pc = "step"
    /\ IF si > result.Total
       THEN /\ pc' = "return"
            /\ UNCHANGED trace
       ELSE /\ pc' = "check"
            /\ trace' = IF preCallback
                        THEN Append(trace, Call("pre", result.ModuleID, si, FALSE, NoErr))
                        ELSE trace
    /\ UNCHANGED <<workers, wizardVars, prev, installed, resAt, registryVars, bridgeVars, dryRun, preCallback, callback, sorted, mi, si,
                   skipped, result, results, runErr>>

\* step.Check != nil && step.Check(ctx), which returns checked, and the
\* branch taken on it: skip, describe (dry-run) or go on to Run
StepCheck(checked) ==
    /\ pc = "check"
    /\ curStep.Check \/ ~checked
    /\ LET d == Disposition(curStep, checked, dryRun)
           t == IF curStep.Check
                THEN Append(trace, Call("check", result.ModuleID, si, checked, NoErr))
                ELSE trace
       IN  /\ trace' = IF d = "dry" /\ curStep.DryRun
                       THEN Append(t, Call("dryrun", result.ModuleID, si, FALSE, NoErr))
                       ELSE t
           /\ pc' = IF d = "run" THEN "apply" ELSE "post"
           /\ skipped' = (d # "run")
           /\ result' = IF d = "skip"
                        THEN [result EXCEPT !.Skipped = @ + 1]
                        ELSE result
    /\ UNCHANGED <<workers, wizardVars, prev, installed, resAt, registryVars, bridgeVars, dryRun, preCallback, callback, sorted, mi, si,
                   results, runErr>>

\* step.Run(ctx), which succeeds (ok) or returns an error
StepApply(ok) ==
    /\ pc = "apply"
    /\ trace' = Append(trace, Call("apply", result.ModuleID, si, ok, NoErr))
    /\ result' = Applied(result, curStep, ok)
    /\ pc' = "post"
    /\ skipped' = FALSE
    /\ UNCHANGED <<workers, wizardVars, prev, installed, resAt, registryVars, bridgeVars, dryRun, preCallback, callback, sorted, mi, si,
                   results, runErr>>

\* the callback after the step when one is set; then the next step, or
\* the return of RunModule on a failed step
StepPost ==
    /\ pc = "post"
    /\ trace' = IF callback
                THEN Append(trace, Call("post", result.ModuleID, si, skipped,
                                        CallbackErr(result, curStep)))
                ELSE trace
    /\ IF StopsModule(result)
       THEN /\ pc' = "return"
            /\ UNCHANGED si
       ELSE /\ pc' = "step"
            /\ si' = si + 1
    /\ UNCHANGED <<workers, wizardVars, prev, installed, resAt, registryVars, bridgeVars, dryRun, preCallback, callback, sorted, mi,
                   skipped, result, results, runErr>>

\* RunModule returns: RunModules appends the result, and returns it with
\* the error of a failed module or goes on to the next module
RunModuleReturn ==
    /\ pc = "return"
    /\ results' = Append(results, result)
    /\ IF StopsRun(result)
       THEN /\ pc' = "returned"
            /\ runErr' = result.Err
            /\ UNCHANGED mi
       ELSE /\ pc' = "loop"
            /\ mi' = mi + 1
            /\ UNCHANGED runErr
    /\ UNCHANGED <<workers, wizardVars, prev, installed, resAt, registryVars, bridgeVars, dryRun, preCallback, callback, sorted, si,
                   skipped, result, trace>>

\* the registry left by a sequence of Register calls on a new one
RECURSIVE RegistryOf(_)
RegistryOf(log) ==
    IF log = <<>> THEN NewRegistry
    ELSE Register(RegistryOf(SubSeq(log, 1, Len(log) - 1)), log[Len(log)])

\* no dependency, or one
ShortDepLists == {<<>>} \cup {<<d>> : d \in IDSet}

\* the registrations of the runner's registries: a first part of IDs, in
\* this order, every module with the same step list
RunLogs(steps) ==
    UNION {{[i \in 1..n |-> Module(IDs[i], "v1", deps[i], steps)] :
               deps \in [1..n -> ShortDepLists]} : n \in 1..Len(IDs)}

\* RunModules is called for one ID
RunRequests == {<<id>> : id \in IDSet}

\* NewRunner(logger, dryRun), SetPreStepCallback and SetCallback, on a
\* registry filled by Register
Init ==
    /\ \E steps \in StepLists : \E log \in RunLogs(steps) :
          /\ modules = RegistryOf(log).modules
          /\ order = RegistryOf(log).order
    /\ regLog = <<>>
    /\ req = <<>>
    /\ res = NoResult
    /\ dryRun \in BOOLEAN
    /\ preCallback \in BOOLEAN
    /\ callback = preCallback
    /\ RunnerIdle
    /\ BridgeIdle
    /\ WizardIdle
    /\ workers = 0
    /\ prev = NoPrev
    /\ installed = <<>>
    /\ resAt = 0

Next ==
    \/ \E ids \in RunRequests : \E iter \in Perms(NeededKeys(registry, ids)) :
          RunModulesCall(ids, iter)
    \/ RunModulesLoop
    \/ StepPre
    \/ \E checked \in BOOLEAN : StepCheck(checked)
    \/ \E ok \in BOOLEAN : StepApply(ok)
    \/ StepPost
    \/ RunModuleReturn

Spec == Init /\ [][Next]_vars

-----------------------------------------------------------------------------
(* The Bridge (internal/tui/wizard): the goroutine run, the events it      *)
(* sends on the channel msgs, and the NextMsg commands that receive them.  *)

\* the capacity of the channel of the model; make(chan tea.Msg, 64) in the
\* code
QueueCap == 2

\* a message on the channel: its type and the fields the types carry
Event(type, mod, index, skip, err, rs) ==
    [type |-> type, mod |-> mod, index |-> index, skipped |-> skip,
     err |-> err, results |-> rs]

ModuleStartMsg(mod) == Event("ModuleStart", mod.ID, 0, FALSE, NoErr, <<>>)

StepStartMsg(mod, index) == Event("StepStart", mod, index, FALSE, NoErr, <<>>)

StepDoneMsg(mod, index, skip) == Event("StepDone", mod, index, skip, NoErr, <<>>)

StepErrorMsg(mod, index, err) == Event("StepError", mod, index, FALSE, err, <<>>)

\* a run whose last event is not an AllDone
AllDoneMsgNotTerminal(rs) == Event("StepDone", "", 0, FALSE, NoErr, rs)

AllDoneMsg(rs) == Event("AllDone", "", 0, FALSE, NoErr, rs)

\* a run that reports a resolution error as an empty AllDone
RunErrorMsgAsAllDone(err) == AllDoneMsg(<<>>)

RunErrorMsg(err) == Event("RunError", "", 0, FALSE, err, <<>>)

\* the nil tea.Msg a NextMsg command returns on the closed channel
NilMsg == Event("nil", "", 0, FALSE, NoErr, <<>>)

\* a channel that hands out the newest message first
EnqueueFront(q, msg) == <<msg>> \o q

\* b.msgs <- msg
Enqueue(q, msg) == Append(q, msg)

\* msg, ok := <-b.msgs on a channel that holds a message
Dequeue(q) == Tail(q)

\* a post-step callback that reports every step as done
StepCallbackMsgDoneOnly(r, step, index, skip) == StepDoneMsg(r.ModuleID, index, skip)

\* the message the post-step callback of Start sends
StepCallbackMsg(r, step, index, skip) ==
    IF CallbackErr(r, step) # NoErr
    THEN StepErrorMsg(r.ModuleID, index, CallbackErr(r, step))
    ELSE StepDoneMsg(r.ModuleID, index, skip)

\* a send without the ctx.Done() case
sendWithoutDone(msg, sent) ==
    /\ sent
    /\ Len(msgs) < QueueCap
    /\ msgs' = Enqueue(msgs, msg)
    /\ handed' = Append(handed, msg)

\* a send on a channel without buffer space beyond one message
sendNeedsEmpty(msg, sent) ==
    IF sent
    THEN /\ msgs = <<>>
         /\ msgs' = Enqueue(msgs, msg)
         /\ handed' = Append(handed, msg)
    ELSE /\ cancelled
         /\ UNCHANGED <<msgs, handed>>

\* b.send(msg): a select between the send on the channel, ready when the
\* buffer has room, and ctx.Done(), ready once cancelled; sent tells the case
\* taken and is the value returned
send(msg, sent) ==
    IF sent
    THEN /\ Len(msgs) < QueueCap
         /\ msgs' = Enqueue(msgs, msg)
         /\ handed' = Append(handed, msg)
    ELSE /\ cancelled
         /\ UNCHANGED <<msgs, handed>>

\* b.Start(): the callbacks are set and run is started in a goroutine
Start ==
    /\ pc = "idle"
    /\ preCallback' = TRUE
    /\ callback' = TRUE
    /\ pc' = "resolve"
    /\ workers' = workers + 1
    /\ UNCHANGED <<wizardVars, prev, installed, resAt, registryVars, bridgeVars, dryRun, sorted, mi, si, skipped,
                   result, results, runErr, trace>>

\* b.Cancel(), the first call (later ones change nothing); the history
\* notes it with the number of messages received so far and whether Start
\* had been called
Cancel ==
    /\ ~cancelled
    /\ cancelled' = TRUE
    /\ trace' = Append(trace, Call("cancel", "", Len(received), pc # "idle", NoErr))
    /\ UNCHANGED <<workers, wizardVars, prev, installed, resAt, registryVars, msgs, closed, handed, received, dryRun,
                   preCallback, callback, pc, sorted, mi, si, skipped, result,
                   results, runErr>>

\* run: sorted, err := b.registry.ResolveDeps(b.moduleIDs)
runResolve ==
    /\ pc = "resolve"
    /\ \E iter \in Perms(NeededKeys(registry, req)) :
          res' = ResolveDeps(registry, req, iter)
    /\ IF res'.err.kind # "none"
       THEN /\ pc' = "runerror"
            /\ runErr' = res'.err
            /\ UNCHANGED <<sorted, mi>>
       ELSE /\ pc' = "loop"
            /\ sorted' = res'.order
            /\ mi' = 1
            /\ UNCHANGED runErr
    /\ UNCHANGED <<workers, wizardVars, prev, installed, resAt, modules, order, regLog, req, bridgeVars, dryRun,
                   preCallback, callback, si, skipped, result, results, trace>>

\* run: b.send(RunErrorMsg{Err: err}); return
runError(sent) ==
    /\ pc = "runerror"
    /\ send(RunErrorMsg(runErr), sent)
    /\ pc' = "close"
    /\ UNCHANGED <<workers, wizardVars, prev, installed, resAt, registryVars, closed, cancelled, received, dryRun,
                   preCallback, callback, sorted, mi, si, skipped, result,
                   results, runErr, trace>>

\* run: the head of the loop over sorted
runLoop ==
    /\ pc = "loop"
    /\ IF mi > Len(sorted)
       THEN /\ pc' = "alldone"
            /\ UNCHANGED runErr
       ELSE IF Get(registry, sorted[mi]) = Nil
       THEN /\ pc' = "runerror"
            /\ runErr' = MissingErr(sorted[mi])
       ELSE /\ pc' = "modstart"
            /\ UNCHANGED runErr
    /\ UNCHANGED <<workers, wizardVars, prev, installed, resAt, registryVars, bridgeVars, dryRun, preCallback, callback,
                   sorted, mi, si, skipped, result, results, trace>>

\* run: if !b.send(ModuleStartMsg{...}) { return }, then RunModule is entered
runModuleStart(sent) ==
    /\ pc = "modstart"
    /\ send(ModuleStartMsg(Get(registry, sorted[mi])), sent)
    /\ IF sent
       THEN /\ pc' = "step"
            /\ result' = NewModuleResult(Get(registry, sorted[mi]))
            /\ si' = 1
       ELSE /\ pc' = "close"
            /\ UNCHANGED <<result, si>>
    /\ UNCHANGED <<workers, wizardVars, prev, installed, resAt, registryVars, closed, cancelled, received, dryRun,
                   preCallback, callback, sorted, mi, skipped, results, runErr,
                   trace>>

\* RunModule: the loop over mod.Steps has ended
stepsDone ==
    /\ pc = "step"
    /\ si > result.Total
    /\ pc' = "return"
    /\ UNCHANGED <<workers, wizardVars, prev, installed, resAt, registryVars, bridgeVars, dryRun, preCallback, callback,
                   sorted, mi, si, skipped, result, results, runErr, trace>>

\* RunModule: r.preCallback(mod, step, i, result.Total) is invoked
preStepCallback ==
    /\ pc = "step"
    /\ si <= result.Total
    /\ trace' = Append(trace, Call("pre", result.ModuleID, si, FALSE, NoErr))
    /\ pc' = "startsend"
    /\ UNCHANGED <<workers, wizardVars, prev, installed, resAt, registryVars, bridgeVars, dryRun, preCallback, callback,
                   sorted, mi, si, skipped, result, results, runErr>>

\* the pre-step callback: b.send(StepStartMsg{...}), its result ignored
sendStepStart(sent) ==
    /\ pc = "startsend"
    /\ send(StepStartMsg(result.ModuleID, si - 1), sent)
    /\ pc' = "check"
    /\ UNCHANGED <<workers, wizardVars, prev, installed, resAt, registryVars, closed, cancelled, received, dryRun,
                   preCallback, callback, sorted, mi, si, skipped, result,
                   results, runErr, trace>>

\* RunModule: r.callback(mod, step, i, result.Total, skipped, err), which
\* sends StepErrorMsg or StepDoneMsg, its result ignored; then the next step,
\* or the return of RunModule on a failed step
stepCallback(sent) ==
    /\ pc = "post"
    /\ send(StepCallbackMsg(result, curStep, si - 1, skipped), sent)
    /\ trace' = Append(trace, Call("post", result.ModuleID, si, skipped,
                                   CallbackErr(result, curStep)))
    /\ IF StopsModule(result)
       THEN /\ pc' = "return"
            /\ UNCHANGED si
       ELSE /\ pc' = "step"
            /\ si' = si + 1
    /\ UNCHANGED <<workers, wizardVars, prev, installed, resAt, registryVars, closed, cancelled, received, dryRun,
                   preCallback, callback, sorted, mi, skipped, result, results,
                   runErr>>

\* run going on to the next module whatever the result
runReturnGoesOn ==
    /\ pc = "return"
    /\ results' = Append(results, result)
    /\ pc' = "loop"
    /\ mi' = mi + 1
    /\ UNCHANGED <<workers, wizardVars, prev, installed, resAt, registryVars, bridgeVars, dryRun,
                   preCallback, callback, sorted, si, skipped, result, runErr, trace>>

\* run: results = append(results, result), and the test of result.Err
runReturn ==
    /\ pc = "return"
    /\ results' = Append(results, result)
    /\ IF result.Err.kind # "none"
       THEN /\ pc' = "alldone"
            /\ UNCHANGED mi
       ELSE /\ pc' = "loop"
            /\ mi' = mi + 1
    /\ UNCHANGED <<workers, wizardVars, prev, installed, resAt, registryVars, bridgeVars, dryRun, preCallback, callback,
                   sorted, si, skipped, result, runErr, trace>>

\* run: b.send(AllDoneMsg{Results: results}), after the loop or a failure
runAllDone(sent) ==
    /\ pc = "alldone"
    /\ send(AllDoneMsg(results), sent)
    /\ pc' = "close"
    /\ UNCHANGED <<workers, wizardVars, prev, installed, resAt, registryVars, closed, cancelled, received, dryRun,
                   preCallback, callback, sorted, mi, si, skipped, result,
                   results, runErr, trace>>

\* run returning without the close
runWithoutClose ==
    /\ pc = "close"
    /\ pc' = "done"
    /\ UNCHANGED <<workers, wizardVars, prev, installed, resAt, registryVars, bridgeVars, dryRun, preCallback, callback,
                   sorted, mi, si, skipped, result, results, runErr, trace>>

\* run: the deferred close(b.msgs)
runClose ==
    /\ pc = "close"
    /\ closed' = TRUE
    /\ pc' = "done"
    /\ UNCHANGED <<workers, wizardVars, prev, installed, resAt, registryVars, msgs, cancelled, handed, received, dryRun,
                   preCallback, callback, sorted, mi, si, skipped, result,
                   results, runErr, trace>>

\* the NextMsg command has returned the nil message
StreamEnded == received # <<>> /\ received[Len(received)] = NilMsg

\* the command NextMsg returns: msg, ok := <-b.msgs, which waits for a
\* message or for the close; the front end asks for the next message until
\* it gets nil
NextMsg ==
    /\ pc # "idle"
    /\ ~StreamEnded
    /\ IF msgs # <<>>
       THEN /\ received' = Append(received, Head(msgs))
            /\ msgs' = Dequeue(msgs)
       ELSE /\ closed
            /\ received' = Append(received, NilMsg)
            /\ UNCHANGED msgs
    /\ UNCHANGED <<workers, wizardVars, prev, installed, resAt, registryVars, closed, cancelled, handed, runnerVars>>

\* the steps of the goroutine run, the checks returning a value of checks
\* and the applies succeeding as oks tells
WorkerGiven(checks, oks) ==
    \/ runResolve
    \/ \E sent \in BOOLEAN : runError(sent)
    \/ runLoop
    \/ \E sent \in BOOLEAN : runModuleStart(sent)
    \/ stepsDone
    \/ preStepCallback
    \/ \E sent \in BOOLEAN : sendStepStart(sent)
    \/ \E checked \in checks : StepCheck(checked)
    \/ \E ok \in oks : StepApply(ok)
    \/ \E sent \in BOOLEAN : stepCallback(sent)
    \/ runReturn
    \/ \E sent \in BOOLEAN : runAllDone(sent)
    \/ runClose

\* the steps of the goroutine run
Worker == WorkerGiven(BOOLEAN, BOOLEAN)

\* the step lists of the modules of runs that may be cancelled: up to
\* MaxSteps steps, each with Check, Run and DryRun
BridgeStepLists == {[i \in 1..n |-> FullStep(i)] : n \in 0..MaxSteps}

\* the registrations and the IDs requested of the Bridge's runs: one
\* module; a module and its dependency, registered before or after it; a
\* module that depends on itself; a module whose dependency is missing
BridgeSetups(steps) ==
    {[log |-> <<Module("a", "v1", <<>>, steps)>>, ids |-> <<"a">>],
     [log |-> <<Module("a", "v1", <<>>, steps), Module("b", "v1", <<"a">>, steps)>>,
      ids |-> <<"b">>],
     [log |-> <<Module("a", "v1", <<"b">>, steps), Module("b", "v1", <<>>, steps)>>,
      ids |-> <<"a">>],
     [log |-> <<Module("a", "v1", <<"a">>, steps)>>, ids |-> <<"a">>],
     [log |-> <<Module("a", "v1", <<"b">>, steps)>>, ids |-> <<"a">>]}

\* NewBridge(runner, reg, ids) on a new Runner and a registry filled by
\* Register
BridgeInit ==
    /\ \E steps \in StepLists : \E setup \in BridgeSetups(steps) :
          /\ modules = RegistryOf(setup.log).modules
          /\ order = RegistryOf(setup.log).order
          /\ req = setup.ids
    /\ regLog = <<>>
    /\ res = NoResult
    /\ dryRun \in BOOLEAN
    /\ preCallback = FALSE
    /\ callback = FALSE
    /\ RunnerIdle
    /\ BridgeIdle
    /\ WizardIdle
    /\ workers = 0
    /\ prev = NoPrev
    /\ installed = <<>>
    /\ resAt = 0

\* NextMsg commands run after the nil message was returned
MaxExtraReads == 2

\* the nil messages received
NilReads == Cardinality({k \in 1..Len(received) : received[k] = NilMsg})

\* a NextMsg command run after the stream has ended: the receive on the
\* closed, empty channel returns at once with ok = false
NextMsgAfterEnd ==
    /\ StreamEnded
    /\ NilReads <= MaxExtraReads
    /\ msgs = <<>> /\ closed
    /\ received' = Append(received, NilMsg)
    /\ UNCHANGED <<workers, wizardVars, prev, installed, resAt, registryVars, msgs, closed, cancelled, handed, runnerVars>>

\* a run of the Bridge that is never cancelled
BridgeNext ==
    \/ Start
    \/ Worker
    \/ NextMsg

BridgeSpec == BridgeInit /\ [][BridgeNext]_vars

\* a run that is never cancelled, whose front end goes on asking for
\* messages after the end of the stream
StreamNext ==
    \/ BridgeNext
    \/ NextMsgAfterEnd

\* every step of run that can be taken is taken, and the front end goes on
\* asking for the next message
StreamSpec ==
    BridgeInit /\ [][StreamNext]_vars /\ WF_vars(Worker) /\ WF_vars(NextMsg)

\* the registrations and the IDs requested of the runs that may be
\* cancelled: one module of up to MaxSteps steps, a module of one step and
\* its dependency of one step, or a module that depends on itself
CancelSetups ==
    {[log |-> <<Module("a", "v1", <<>>, steps)>>, ids |-> <<"a">>] :
        steps \in BridgeStepLists}
    \cup {[log |-> <<Module("a", "v1", <<>>, <<FullStep(1)>>),
                     Module("b", "v1", <<"a">>, <<FullStep(1)>>)>>,
           ids |-> <<"b">>],
          [log |-> <<Module("a", "v1", <<"a">>, <<FullStep(1)>>)>>, ids |-> <<"a">>]}

CancelInit ==
    /\ \E setup \in CancelSetups :
          /\ modules = RegistryOf(setup.log).modules
          /\ order = RegistryOf(setup.log).order
          /\ req = setup.ids
    /\ regLog = <<>>
    /\ res = NoResult
    /\ dryRun \in BOOLEAN
    /\ preCallback = FALSE
    /\ callback = FALSE
    /\ RunnerIdle
    /\ BridgeIdle
    /\ WizardIdle
    /\ workers = 0
    /\ prev = NoPrev
    /\ installed = <<>>
    /\ resAt = 0

\* a run of the Bridge in which Cancel may be called at any time
CancelNext ==
    \/ Cancel
    \/ Start
    \/ Worker
    \/ NextMsg

CancelSpec == CancelInit /\ [][CancelNext]_vars

\* every step of run that can be taken is taken (a check or an apply
\* that was entered returns, the goroutine is scheduled); the front end may
\* stop reading
WorkerFairSpec == CancelSpec /\ WF_vars(Worker)

\* moreover the front end goes on asking for the next message
FairSpec == WorkerFairSpec /\ WF_vars(NextMsg)

-----------------------------------------------------------------------------
(* The PickerModel: the module picker of the wizard.                       *)

CategoryBase == "Base"

CategoryLanguage == "Language"

CategoryTool == "Tool"

\* a Module with its Category field
Categorised(m, cat) ==
    [ID |-> m.ID, Name |-> m.Name, Category |-> cat,
     Dependencies |-> m.Dependencies, Steps |-> m.Steps]

\* reg.ByCategory(cat): the IDs of the modules of the category, in
\* insertion order
ByCategory(r, cat) ==
    SelectSeq(r.order, LAMBDA id : r.modules[id].Category = cat)

\* the rows NewPickerModel builds for one category: nothing if it has no
\* module, else a header and a row for each module, required for base
categoryItems(r, cat) ==
    LET mods == ByCategory(r, cat) IN
    IF mods = <<>> THEN <<>>
    ELSE <<[isHeader |-> TRUE, category |-> cat, module |-> "", required |-> FALSE]>>
         \o [k \in 1..Len(mods) |->
                [isHeader |-> FALSE, category |-> "", module |-> mods[k],
                 required |-> (cat = CategoryBase)]]

\* m.items of NewPickerModel(styles, reg)
pickerItems(r) ==
    categoryItems(r, CategoryBase) \o categoryItems(r, CategoryLanguage)
        \o categoryItems(r, CategoryTool)

\* m.items of the picker of the session
items == pickerItems(registry)

\* the IDs of the module rows
itemIDs(its) == {its[j].module : j \in {k \in 1..Len(its) : ~its[k].isHeader}}

\* the loop of nextSelectable: i positions tried so far, pos the next one
RECURSIVE scanSelectable(_, _, _, _, _)
scanSelectable(its, from, dir, pos, i) ==
    IF i >= Len(its) THEN from
    ELSE LET at == IF pos < 0 THEN Len(its) - 1
                   ELSE IF pos >= Len(its) THEN 0 ELSE pos
         IN IF ~its[at + 1].isHeader THEN at
            ELSE scanSelectable(its, from, dir, at + dir, i + 1)

\* m.nextSelectable(from, dir): the next row that is no header, wrapping
\* around; positions count from 0 as in the code
nextSelectable(its, from, dir) ==
    IF Len(its) = 0 THEN 0 ELSE scanSelectable(its, from, dir, from + dir, 0)

\* m.SelectedModuleIDs(): the selected IDs that have a row, in row order
SelectedModuleIDs(its, sel) ==
    LET rows == SelectSeq(its, LAMBDA it : ~it.isHeader /\ it.module \in sel)
    IN [k \in 1..Len(rows) |-> rows[k].module]

\* the part of the picker the selection functions change
Picked(sel, rb) == [selected |-> sel, requiredBy |-> rb]

\* autoSelectDeps that selects the direct dependencies only
RECURSIVE autoSelectDirect(_, _, _, _)
autoSelectDirect(r, p, id, k) ==
    LET deps == r.modules[id].Dependencies IN
    IF k > Len(deps) THEN p
    ELSE autoSelectDirect(r, Picked(p.selected \cup {deps[k]}, p.requiredBy), id, k + 1)

\* m.autoSelectDeps(mod) from the k-th dependency of mod on: the dependency
\* is selected; if it has a row, the row notes mod.Name and the
\* dependencies of the dependency are selected in turn
RECURSIVE autoSelectDeps(_, _, _, _)
autoSelectDeps(r, p, id, k) ==
    LET deps == r.modules[id].Dependencies IN
    IF k > Len(deps) THEN p
    ELSE LET dep == deps[k]
             sel == p.selected \cup {dep}
             next == IF dep \in DOMAIN p.requiredBy
                     THEN autoSelectDeps(r,
                              Picked(sel, [p.requiredBy EXCEPT
                                              ![dep] = @ \cup {r.modules[id].Name}]),
                              dep, 1)
                     ELSE Picked(sel, p.requiredBy)
         IN autoSelectDeps(r, next, id, k + 1)

\* m.isDepOfAnySelected(moduleID): a selected module with a row names
\* moduleID among its dependencies
isDepOfAnySelected(r, its, sel, moduleID) ==
    \E id \in itemIDs(its) \cap sel : moduleID \in Range(r.modules[id].Dependencies)

\* the second loop of clearDepHints from row j on: the hint name is deleted
\* from the row; the row is deselected if it has no hint left, is not
\* required and is no dependency of a module selected at that moment
RECURSIVE clearRows(_, _, _, _, _)
clearRows(r, its, p, name, j) ==
    IF j > Len(its) THEN p
    ELSE IF its[j].isHeader THEN clearRows(r, its, p, name, j + 1)
    ELSE LET id == its[j].module
             rb == [p.requiredBy EXCEPT ![id] = @ \ {name}]
             sel == IF rb[id] = {} /\ ~its[j].required
                       /\ ~isDepOfAnySelected(r, its, p.selected, id)
                    THEN p.selected \ {id} ELSE p.selected
         IN clearRows(r, its, Picked(sel, rb), name, j + 1)

\* m.clearDepHints(moduleID): nothing without a row of that ID or with an
\* empty name
clearDepHints(r, its, p, moduleID) ==
    IF moduleID \notin itemIDs(its) \/ r.modules[moduleID].Name = "" THEN p
    ELSE clearRows(r, its, p, r.modules[moduleID].Name, 1)

\* toggleCurrent without the test of item.required
toggleCurrentAnyRow(r, its, p, cur) ==
    IF cur < 0 \/ cur >= Len(its) THEN p
    ELSE IF its[cur + 1].isHeader THEN p
    ELSE LET id == its[cur + 1].module IN
         IF id \in p.selected
         THEN clearDepHints(r, its, Picked(p.selected \ {id}, p.requiredBy), id)
         ELSE autoSelectDeps(r, Picked(p.selected \cup {id}, p.requiredBy), id, 1)

\* m.toggleCurrent(): a required row is left alone; a selected module is
\* deselected and its hints are cleared; an unselected one is selected with
\* its dependencies
toggleCurrent(r, its, p, cur) ==
    IF cur < 0 \/ cur >= Len(its) THEN p
    ELSE IF its[cur + 1].isHeader THEN p
    ELSE IF its[cur + 1].required THEN p
    ELSE LET id == its[cur + 1].module IN
         IF id \in p.selected
         THEN clearDepHints(r, its, Picked(p.selected \ {id}, p.requiredBy), id)
         ELSE autoSelectDeps(r, Picked(p.selected \cup {id}, p.requiredBy), id, 1)

\* m.selectAll(): every module with a row is selected
selectAll(its, sel) == sel \cup itemIDs(its)

\* the keys PickerModel.Update knows, and one it does not
PickerKeys == {"up", "k", "down", "j", " ", "enter", "a", "q"}

\* the PickerConfirmMsg commands of a session of the model
MaxConfirms == 2

\* NewPickerModel(styles, reg): the base modules are selected, the cursor
\* is on the first row that is no header
NewPickerModel ==
    /\ selected = {id \in DOMAIN modules : modules[id].Category = CategoryBase}
    /\ cursor = nextSelectable(items, 0, 1)
    /\ requiredBy = [id \in itemIDs(items) |-> {}]
    /\ inflight = <<>>
    /\ lastKey = ""

\* PickerModel.Update(msg) for a key message; enter with a selection
\* returns the command that delivers PickerConfirmMsg
pickerUpdate(key) ==
    /\ key = "enter" /\ SelectedModuleIDs(items, selected) # <<>> =>
          Len(inflight) < MaxConfirms
    /\ cursor' = IF key \in {"up", "k"} THEN nextSelectable(items, cursor, -1)
                 ELSE IF key \in {"down", "j"} THEN nextSelectable(items, cursor, 1)
                 ELSE cursor
    /\ LET p == IF key = " "
                THEN toggleCurrent(registry, items, Picked(selected, requiredBy), cursor)
                ELSE IF key = "a" THEN Picked(selectAll(items, selected), requiredBy)
                ELSE Picked(selected, requiredBy)
       IN /\ selected' = p.selected
          /\ requiredBy' = p.requiredBy
    /\ inflight' = IF key = "enter" /\ SelectedModuleIDs(items, selected) # <<>>
                   THEN Append(inflight, SelectedModuleIDs(items, selected))
                   ELSE inflight

\* the registries of the picker's sessions, all without a dependency
\* cycle: modules a, b and c, where b may depend on a and c on a and b; a
\* module whose dependency is not registered; a module registered before
\* its dependencies; no module
PickerSetups ==
    {<<Categorised(Module("a", "A", <<>>, <<>>), ca),
       Categorised(Module("b", "B", db, <<>>), CategoryLanguage),
       Categorised(Module("c", "C", dc, <<>>), CategoryTool)>> :
        <<ca, db, dc>> \in
            {CategoryBase, CategoryTool} \X {<<>>, <<"a">>}
            \X {<<>>, <<"a">>, <<"b">>, <<"b", "a">>}}
    \cup {<<Categorised(Module("a", "A", <<>>, <<>>), CategoryBase),
            Categorised(Module("b", "B", <<"d">>, <<>>), CategoryLanguage)>>,
          <<Categorised(Module("c", "C", <<"b">>, <<>>), CategoryLanguage),
            Categorised(Module("b", "B", <<"a">>, <<>>), CategoryBase),
            Categorised(Module("a", "A", <<>>, <<>>), CategoryTool)>>,
          <<>>}

\* NewPickerModel on a registry filled by Register
PickerInit ==
    /\ \E log \in PickerSetups :
          /\ modules = RegistryOf(log).modules
          /\ order = RegistryOf(log).order
    /\ req = <<>>
    /\ regLog = <<>>
    /\ res = NoResult
    /\ dryRun = FALSE
    /\ preCallback = FALSE
    /\ callback = FALSE
    /\ RunnerIdle
    /\ BridgeIdle
    /\ screen = "picker"
    /\ bridge = FALSE
    /\ quitting = FALSE
    /\ pending = 0
    /\ delivered = 0
    /\ summary = NoSummary
    /\ exited = FALSE
    /\ confirms = 0
    /\ NewPickerModel
    /\ workers = 0
    /\ prev = NoPrev
    /\ installed = <<>>
    /\ resAt = 0

\* the picker is given a key message
PickerNext ==
    \E key \in PickerKeys :
        /\ pickerUpdate(key)
        /\ lastKey' = key
        /\ UNCHANGED <<registryVars, runnerVars, bridgeVars, workers, prev,
                       installed, resAt, screen, bridge, quitting, confirms,
                       pending, delivered, summary, exited>>

PickerSpec == PickerInit /\ [][PickerNext]_vars

-----------------------------------------------------------------------------
(* The WizardModel in a session of the program: Update is given the        *)
(* messages of the terminal and the messages its commands return.          *)

screenPicker == "picker"

screenProgress == "progress"

screenSummary == "summary"

\* the types of the events of the Bridge
EventTypes ==
    {"ModuleStart", "StepStart", "StepDone", "StepError", "AllDone", "RunError"}

\* the types of the messages Update is given: window size and key
\* messages, the picker's confirmation, the Bridge's events, spinner ticks
MsgTypes == {"WindowSize", "key", "PickerConfirm", "Tick"} \cup EventTypes

KeyMsg(key) == [type |-> "key", key |-> key]

PickerConfirmMsg(ids) == [type |-> "PickerConfirm", ModuleIDs |-> ids]

WindowSizeMsg == [type |-> "WindowSize"]

TickMsg == [type |-> "Tick"]

\* a wizard that stays on the picker when the selection is confirmed
nextScreenStaysOnPicker(s, type) ==
    IF s = screenProgress /\ type \in {"AllDone", "RunError"} THEN screenSummary
    ELSE s

\* a wizard whose summary returns to the picker on a key
nextScreenStartsOver(s, type) ==
    IF s = screenPicker /\ type = "PickerConfirm" THEN screenProgress
    ELSE IF s = screenProgress /\ type \in {"AllDone", "RunError"} THEN screenSummary
    ELSE IF s = screenSummary /\ type = "key" THEN screenPicker
    ELSE s

\* m.screen after updatePicker, updateProgress or updateSummary was given a
\* message of this type: the picker is left on PickerConfirmMsg, the progress
\* screen on AllDoneMsg or RunErrorMsg, the summary never
nextScreen(s, type) ==
    IF s = screenPicker /\ type = "PickerConfirm" THEN screenProgress
    ELSE IF s = screenProgress /\ type \in {"AllDone", "RunError"} THEN screenSummary
    ELSE s

\* a progress screen that asks for the next event on a spinner tick too
nextMsgCmdsOnTick(s, type, hasBridge) ==
    IF s = screenPicker /\ type = "PickerConfirm" THEN 1
    ELSE IF s = screenProgress /\ hasBridge
            /\ type \in {"ModuleStart", "StepStart", "StepDone", "StepError", "Tick"}
    THEN 1
    ELSE 0

\* the NextMsg commands among the commands Update returns: the one of
\* m.bridge.Start() on the picker's confirmation, and one after an event
\* other than AllDoneMsg and RunErrorMsg on the progress screen
nextMsgCmds(s, type, hasBridge) ==
    IF s = screenPicker /\ type = "PickerConfirm" THEN 1
    ELSE IF s = screenProgress /\ hasBridge
            /\ type \in {"ModuleStart", "StepStart", "StepDone", "StepError"}
    THEN 1
    ELSE 0

\* the SummaryModel after updateProgress was given msg: SetResults on
\* AllDoneMsg, SetError on RunErrorMsg
summaryAfter(sum, msg) ==
    IF msg.type = "AllDone" THEN [sum EXCEPT !.results = msg.results]
    ELSE IF msg.type = "RunError" THEN [sum EXCEPT !.err = msg.err]
    ELSE sum

\* Update, case tea.KeyMsg "ctrl+c": the Bridge, if there is one, is
\* cancelled, and the program quits
updateQuit ==
    /\ quitting' = TRUE
    /\ IF bridge /\ ~cancelled
       THEN /\ cancelled' = TRUE
            /\ trace' = Append(trace, Call("cancel", "", Len(received), pc # "idle", NoErr))
       ELSE UNCHANGED <<cancelled, trace>>
    /\ UNCHANGED <<registryVars, msgs, closed, handed, received, dryRun,
                   preCallback, callback, pc, sorted, mi, si, skipped, result,
                   results, runErr, workers, screen, bridge>>

\* updatePicker, case PickerConfirmMsg: m.bridge = NewBridge(m.runner,
\* m.registry, msg.ModuleIDs), a new channel and a new context, then
\* m.bridge.Start(), which sets the callbacks and starts run in a goroutine
updatePickerConfirm(ids) ==
    /\ bridge' = TRUE
    /\ req' = ids
    /\ msgs' = <<>>
    /\ closed' = FALSE
    /\ cancelled' = FALSE
    /\ handed' = <<>>
    /\ received' = <<>>
    /\ preCallback' = TRUE
    /\ callback' = TRUE
    /\ workers' = workers + 1
    /\ pc' = "resolve"
    /\ sorted' = <<>>
    /\ mi' = 0
    /\ si' = 0
    /\ skipped' = FALSE
    /\ result' = NoModuleResult
    /\ results' = <<>>
    /\ runErr' = NoErr
    /\ UNCHANGED <<modules, order, regLog, res, dryRun, trace, quitting>>

\* m.Update(msg): a window size goes to the three screens; ctrl+c quits;
\* any other message goes to the screen shown: updatePicker starts the
\* Bridge on the confirmation and gives the rest to the picker,
\* updateProgress goes to the summary on AllDoneMsg and RunErrorMsg, and
\* the summary quits on enter and q. No message is handled after tea.Quit.
Update(msg) ==
    /\ ~exited
    /\ confirms' = IF msg.type = "PickerConfirm" THEN confirms + 1 ELSE confirms
    /\ delivered' = IF msg.type \in EventTypes THEN delivered + 1 ELSE delivered
    /\ UNCHANGED <<prev, installed, resAt>>
    /\ IF msg.type = "WindowSize"
       THEN UNCHANGED <<registryVars, runnerVars, bridgeVars, workers, screen,
                        bridge, quitting, pending, summary, exited, pickerVars>>
       ELSE IF msg.type = "key" /\ msg.key = "ctrl+c"
       THEN /\ updateQuit
            /\ exited' = TRUE
            /\ UNCHANGED <<pending, summary, pickerVars>>
       ELSE /\ screen' = nextScreen(screen, msg.type)
            /\ pending' = pending + nextMsgCmds(screen, msg.type, bridge)
            /\ summary' = IF screen = screenProgress THEN summaryAfter(summary, msg)
                          ELSE summary
            /\ exited' = (screen = screenSummary /\ msg.type = "key"
                          /\ msg.key \in {"enter", "q"})
            /\ IF screen = screenPicker /\ msg.type = "PickerConfirm"
               THEN updatePickerConfirm(msg.ModuleIDs)
               ELSE UNCHANGED <<registryVars, runnerVars, bridgeVars, workers,
                                bridge, quitting>>
            /\ IF screen = screenPicker /\ msg.type = "key"
               THEN pickerUpdate(msg.key) /\ UNCHANGED lastKey
               ELSE UNCHANGED pickerVars

\* the command m.bridge.NextMsg() that Update returned runs: it waits for
\* an event on the channel or for the close
NextMsgCmd ==
    /\ pending > 0
    /\ pending' = pending - 1
    /\ IF msgs # <<>>
       THEN /\ received' = Append(received, Head(msgs))
            /\ msgs' = Dequeue(msgs)
       ELSE /\ closed
            /\ received' = Append(received, NilMsg)
            /\ UNCHANGED msgs
    /\ UNCHANGED <<workers, screen, bridge, quitting, confirms, delivered, summary,
                   exited, pickerVars, prev, installed, resAt, registryVars,
                   closed, cancelled, handed, runnerVars>>

\* the keys of the key messages of the model
WizardKeys == {" ", "enter", "q", "ctrl+c"}

\* the registries of the wizard's sessions: one module of up to MaxSteps
\* steps, or a base module that depends on itself
WizardSetups ==
    {<<Categorised(Module("a", "v1", <<>>, steps), CategoryTool)>> :
        steps \in BridgeStepLists}
    \cup {<<Categorised(Module("a", "v1", <<"a">>, <<FullStep(1)>>), CategoryBase)>>}

\* wizard.New(reg, runner, explain, dryRun) on a registry filled by Register
WizardInit ==
    /\ \E log \in WizardSetups :
          /\ modules = RegistryOf(log).modules
          /\ order = RegistryOf(log).order
    /\ req = <<>>
    /\ regLog = <<>>
    /\ res = NoResult
    /\ dryRun \in BOOLEAN
    /\ preCallback = FALSE
    /\ callback = FALSE
    /\ RunnerIdle
    /\ BridgeIdle
    /\ screen = screenPicker
    /\ bridge = FALSE
    /\ quitting = FALSE
    /\ confirms = 0
    /\ pending = 0
    /\ delivered = 0
    /\ summary = NoSummary
    /\ exited = FALSE
    /\ NewPickerModel
    /\ workers = 0
    /\ prev = NoPrev
    /\ installed = <<>>
    /\ resAt = 0

\* a session of the wizard: the terminal sends key and window size
\* messages and the spinner ticks at any time; the picker's confirmation
\* arrives after the picker returned its command; the events of the Bridge
\* arrive, in the order the NextMsg commands received them, after the
\* command returned; the goroutine of the Bridge takes its steps
WizardNext ==
    \/ \E key \in WizardKeys : Update(KeyMsg(key))
    \/ Update(WindowSizeMsg)
    \/ Update(TickMsg)
    \/ /\ confirms < Len(inflight)
       /\ Update(PickerConfirmMsg(inflight[confirms + 1]))
    \/ NextMsgCmd
    \/ /\ delivered < Len(received)
       /\ received[delivered + 1] # NilMsg
       /\ Update(received[delivered + 1])
    \/ Worker

WizardSpec == WizardInit /\ [][WizardNext]_vars

-----------------------------------------------------------------------------
(* A run for the same request after a run has returned.                    *)

\* the runs made after the first one
MaxReruns == 2

\* the steps whose apply returned nil in the run that has returned
AppliedSteps ==
    {<<trace[k].mod, trace[k].step>> :
        k \in {j \in 1..Len(trace) : trace[j].op = "apply" /\ trace[j].val}}

\* RunModules has returned and a Runner is made for the next run,
\* NewRunner(logger, dry), with the callbacks of the last one; the outcome
\* of the run that returned is kept in the history
RunAgain(dry) ==
    /\ pc = "returned"
    /\ prev.runs < MaxReruns
    /\ prev' = [runs |-> prev.runs + 1, trace |-> trace, results |-> results,
                runErr |-> runErr, applied |-> prev.applied \cup AppliedSteps]
    /\ dryRun' = dry
    /\ pc' = "idle"
    /\ sorted' = <<>>
    /\ mi' = 0
    /\ si' = 0
    /\ skipped' = FALSE
    /\ result' = NoModuleResult
    /\ results' = <<>>
    /\ runErr' = NoErr
    /\ trace' = <<>>
    /\ UNCHANGED <<registryVars, bridgeVars, workers, wizardVars, preCallback,
                   callback, installed, resAt>>

\* the steps of RunModules after ResolveDeps, the checks returning a value
\* of checks and the applies succeeding as oks tells
RunnerGiven(checks, oks) ==
    \/ RunModulesLoop
    \/ StepPre
    \/ \E checked \in checks : StepCheck(checked)
    \/ \E ok \in oks : StepApply(ok)
    \/ StepPost
    \/ RunModuleReturn

\* what a check that reflects durable state returns for the step being
\* processed: true exactly when its apply has succeeded in an earlier run
checkSatisfied ==
    IF pc = "check" THEN {(<<result.ModuleID, si>> \in prev.applied)} ELSE {}

\* what the check (op "check") or the apply (op "apply") of the step being
\* processed returns when the step behaves as in the run before: the value
\* it returned then, any value if it was not called then
Replayed(op) ==
    IF pc \notin {"check", "apply"} THEN {}
    ELSE LET vs == {prev.trace[k].val :
                       k \in {j \in 1..Len(prev.trace) :
                                 /\ prev.trace[j].op = op
                                 /\ prev.trace[j].mod = result.ModuleID
                                 /\ prev.trace[j].step = si}}
         IN  IF vs = {} THEN BOOLEAN ELSE vs

\* a Runner with dry-run off and a registry whose steps all have a Check,
\* for the requests of the Bridge's runs
RerunInit ==
    /\ \E steps \in BridgeStepLists : \E setup \in BridgeSetups(steps) :
          /\ modules = RegistryOf(setup.log).modules
          /\ order = RegistryOf(setup.log).order
          /\ req = setup.ids
    /\ regLog = <<>>
    /\ res = NoResult
    /\ dryRun = FALSE
    /\ preCallback \in BOOLEAN
    /\ callback = preCallback
    /\ RunnerIdle
    /\ BridgeIdle
    /\ WizardIdle
    /\ workers = 0
    /\ prev = NoPrev
    /\ installed = <<>>
    /\ resAt = 0

\* RunModules is called for the same request again and again, dry-run off,
\* every check reflecting the applies that succeeded in the earlier runs
RerunNext ==
    \/ \E iter \in Perms(NeededKeys(registry, req)) : RunModulesCall(req, iter)
    \/ RunnerGiven(checkSatisfied, BOOLEAN)
    \/ RunAgain(FALSE)

RerunSpec == RerunInit /\ [][RerunNext]_vars

\* a Runner with dry-run off, for the requests of the Bridge's runs
DryRerunInit ==
    /\ \E steps \in StepLists : \E setup \in BridgeSetups(steps) :
          /\ modules = RegistryOf(setup.log).modules
          /\ order = RegistryOf(setup.log).order
          /\ req = setup.ids
    /\ regLog = <<>>
    /\ res = NoResult
    /\ dryRun = FALSE
    /\ preCallback \in BOOLEAN
    /\ callback = preCallback
    /\ RunnerIdle
    /\ BridgeIdle
    /\ WizardIdle
    /\ workers = 0
    /\ prev = NoPrev
    /\ installed = <<>>
    /\ resAt = 0

\* a normal run in which every apply succeeds, then a dry run for the same
\* request in which every check returns what it returned in the normal run
DryRerunNext ==
    \/ \E iter \in Perms(NeededKeys(registry, req)) : RunModulesCall(req, iter)
    \/ RunnerGiven(Replayed("check"), {TRUE})
    \/ prev.runs = 0 /\ RunAgain(TRUE)

DryRerunSpec == DryRerunInit /\ [][DryRerunNext]_vars

\* RunModules is called, then a Bridge is made for the same Runner,
\* registry and request, and started; its checks and applies return what
\* they returned to RunModules
RelayNext ==
    \/ /\ prev.runs = 0
       /\ \/ \E iter \in Perms(NeededKeys(registry, req)) : RunModulesCall(req, iter)
          \/ RunnerGiven(BOOLEAN, BOOLEAN)
          \/ RunAgain(dryRun)
    \/ /\ prev.runs = 1
       /\ \/ Start
          \/ WorkerGiven(Replayed("check"), Replayed("apply"))
          \/ NextMsg

RelaySpec == BridgeInit /\ [][RelayNext]_vars

-----------------------------------------------------------------------------
(* The non-interactive setup path: runSetupCLI and saveState.              *)

\* s.AddModule(id): id is appended unless the list contains it
AddModule(list, id) == IF id \in Range(list) THEN list ELSE Append(list, id)

\* the loop of saveState over the results from the k-th on: AddModule for
\* every result without error
RECURSIVE AddModules(_, _, _)
AddModules(list, rs, k) ==
    IF k > Len(rs) THEN list
    ELSE AddModules(IF rs[k].Err = NoErr THEN AddModule(list, rs[k].ModuleID) ELSE list,
                    rs, k + 1)

\* moduleIDs := args, or the IDs of reg.All() when no argument is given
moduleIDs(args) == IF args = <<>> THEN order ELSE args

\* the arguments of the setup command: none, or one registered ID
SetupArgs == {<<>>} \cup {<<id>> : id \in DOMAIN modules}

\* the lists of installed modules state.Load may return
LoadedStates == {<<>>, <<"a">>}

\* runSetup up to the call of runSetupCLI, with its first statement
\* runner.SetCallback(cliStepCallback): the state loaded, a registry filled
\* by Register, and NewRunner(logger, flagDryRun)
SetupInit ==
    /\ \E steps \in StepLists : \E setup \in BridgeSetups(steps) :
          /\ modules = RegistryOf(setup.log).modules
          /\ order = RegistryOf(setup.log).order
    /\ req = <<>>
    /\ regLog = <<>>
    /\ res = NoResult
    /\ dryRun \in BOOLEAN
    /\ preCallback = FALSE
    /\ callback = TRUE
    /\ RunnerIdle
    /\ BridgeIdle
    /\ WizardIdle
    /\ workers = 0
    /\ prev = NoPrev
    /\ installed \in LoadedStates
    /\ resAt = 0

\* saveState(st, results, logger), called when RunModules has returned,
\* with or without an error
saveState ==
    /\ pc = "returned"
    /\ installed' = AddModules(installed, results, 1)
    /\ pc' = "saved"
    /\ UNCHANGED <<registryVars, bridgeVars, workers, wizardVars, prev, resAt,
                   dryRun, preCallback, callback, sorted, mi, si, skipped,
                   result, results, runErr, trace>>

\* runSetupCLI: RunModules for the arguments, then saveState
SetupNext ==
    \/ \E args \in SetupArgs : \E iter \in Perms(NeededKeys(registry, moduleIDs(args))) :
          RunModulesCall(moduleIDs(args), iter)
    \/ RunnerGiven(BOOLEAN, BOOLEAN)
    \/ saveState

SetupSpec == SetupInit /\ [][SetupNext]_vars


-----------------------------------------------------------------------------
(* The dependency graph of the registry, defined without the resolver.     *)

Called == res.err.kind # "nocall"

Succeeded == res.err.kind = "none"

\* the IDs a registered module names as dependencies
DepsOf(id) == IF id \in DOMAIN modules THEN Range(modules[id].Dependencies) ELSE {}

\* the IDs reachable from the set S in at most n dependency edges
RECURSIVE ReachWithin(_, _)
ReachWithin(S, n) ==
    IF n = 0 THEN S ELSE ReachWithin(S \cup UNION {DepsOf(x) : x \in S}, n - 1)

\* the needed set of a request: its IDs and their transitive dependencies
NeededSet(ids) == ReachWithin(Range(ids), Len(IDs))

\* the IDs reachable from id in one edge or more
DependsOn(id) == ReachWithin(DepsOf(id), Len(IDs))

FullyRegistered(ids) == NeededSet(ids) \subseteq DOMAIN modules

HasCycle(ids) == \E x \in NeededSet(ids) : x \in DependsOn(x)

\* the position of an ID in a sequence without repetitions (0: absent)
PosIn(s, id) == IF \E i \in 1..Len(s) : s[i] = id
                THEN CHOOSE i \in 1..Len(s) : s[i] = id ELSE 0

NoRepeats(s) == \A i, j \in 1..Len(s) : s[i] = s[j] => i = j

-----------------------------------------------------------------------------
(* Claims about Register and ResolveDeps.                                  *)

\* C1: for a request whose needed set is fully registered and acyclic,
\* ResolveDeps succeeds, and every dependency of every module of the
\* returned order stands at an earlier position than the module.
C1_TopologicalValidity ==
    (Called /\ FullyRegistered(req) /\ ~HasCycle(req)) =>
        /\ Succeeded
        /\ \A i \in 1..Len(res.order) : \A d \in DepsOf(res.order[i]) :
              \E j \in 1..(i - 1) : res.order[j] = d

\* C2: a successful ResolveDeps returns exactly the needed set of the
\* request, every ID once.
C2_ExactlyNeededOnce ==
    (Called /\ Succeeded) =>
        /\ Range(res.order) = NeededSet(req)
        /\ NoRepeats(res.order)

\* two requested modules that share a dependency
C2_Witness ==
    /\ Called /\ Succeeded
    /\ Len(req) = 2 /\ req[1] # req[2]
    /\ \E x \in DepsOf(req[1]) \cap DepsOf(req[2]) : x \notin Range(req)

\* a dependency that is requested too, after its dependent
C2_WitnessRequestedDep ==
    /\ Called /\ Succeeded
    /\ Len(req) = 2 /\ req[2] \in DepsOf(req[1])

\* an ID requested twice
C2_WitnessRepeated ==
    /\ Called /\ Succeeded
    /\ Len(req) = 2 /\ req[1] = req[2]

\* the modules not yet placed before position p whose dependencies all are
EligibleAt(p) ==
    {m \in NeededSet(req) :
        /\ \A j \in 1..(p - 1) : res.order[j] # m
        /\ \A d \in DepsOf(m) : \E j \in 1..(p - 1) : res.order[j] = d}

ReadyAt(m) ==
    LET at == {PosIn(res.order, d) : d \in DepsOf(m)}
    IN  IF at = {} THEN 0 ELSE CHOOSE x \in at : \A y \in at : y <= x

C4_Deterministic ==
    Called =>
        \A ids \in {r \in Requests : Range(r) = Range(req)} :
            \A iter \in Perms(NeededKeys(registry, ids)) :
                LET other == ResolveDeps(registry, ids, iter)
                IN  /\ other.order = res.order
                    /\ (other.err.kind = "none") = Succeeded

\* a request of two different IDs that resolves to two modules or more
\* which are eligible from the start
C4_Witness ==
    /\ Called /\ Succeeded
    /\ Len(req) = 2 /\ req[1] # req[2]
    /\ Cardinality({m \in NeededSet(req) : DepsOf(m) = {}}) >= 2

\* C5: when the needed set (all of it registered) contains a dependency
\* cycle, ResolveDeps returns the cycle error and no order.
C5_CycleError ==
    (Called /\ FullyRegistered(req) /\ HasCycle(req)) =>
        /\ res.err.kind = "cycle"
        /\ res.order = <<>>

\* a needed set with a cycle and with a module outside it that has no
\* dependencies
C5_Witness ==
    /\ Called /\ FullyRegistered(req) /\ HasCycle(req)
    /\ \E x \in NeededSet(req) : DepsOf(x) = {}

\* a module that depends on itself
C5_WitnessSelf ==
    /\ Called /\ FullyRegistered(req)
    /\ \E x \in NeededSet(req) : x \in DepsOf(x)

\* C6: when a requested ID or an ID reachable from one is not registered,
\* ResolveDeps returns an error naming an unregistered ID of the needed
\* set, and no order.
C6_MissingError ==
    (Called /\ ~FullyRegistered(req)) =>
        /\ res.err.kind = "missing"
        /\ res.err.id \in NeededSet(req) \ DOMAIN modules
        /\ res.order = <<>>

\* an unregistered dependency in a needed set that contains a cycle too
C6_Witness ==
    /\ Called /\ ~FullyRegistered(req) /\ HasCycle(req)
    /\ Range(req) \subseteq DOMAIN modules

\* the IDs of the history, each at its first occurrence
RECURSIVE FirstOccurrences(_)
FirstOccurrences(log) ==
    IF log = <<>> THEN <<>>
    ELSE LET front == FirstOccurrences(SubSeq(log, 1, Len(log) - 1))
             id    == log[Len(log)].ID
         IN  IF id \in Range(front) THEN front ELSE Append(front, id)

\* the module of the latest Register call for id
LastRegistered(log, id) ==
    log[CHOOSE i \in 1..Len(log) :
            /\ log[i].ID = id
            /\ \A j \in (i + 1)..Len(log) : log[j].ID # id]

\* C7: after any sequence of Register calls the insertion order lists every
\* registered ID once, at the place of its first registration, and Get
\* returns the module of the latest Register call for the ID (nil for an
\* ID never registered).
C7_RegisterKeepsSlot ==
    /\ order = FirstOccurrences(regLog)
    /\ \A id \in IDSet :
          Get(registry, id) =
              IF \E i \in 1..Len(regLog) : regLog[i].ID = id
              THEN LastRegistered(regLog, id) ELSE Nil

\* an ID registered, then another, then the first again with another module
C7_Witness ==
    /\ Len(regLog) >= 3
    /\ regLog[1].ID = regLog[3].ID
    /\ regLog[1] # regLog[3]
    /\ regLog[2].ID # regLog[1].ID
    /\ Len(order) = 2

-----------------------------------------------------------------------------
(* Claims about RunModule and RunModules.                                  *)

\* the calls of the history made for step i of module m with operation op
CallsOf(op, m, i) ==
    {k \in 1..Len(trace) : trace[k].op = op /\ trace[k].mod = m /\ trace[k].step = i}

\* the number of calls of op for module m that returned val
CountOf(op, m, val) ==
    Cardinality({k \in 1..Len(trace) :
                    trace[k].op = op /\ trace[k].mod = m /\ trace[k].val = val})

\* RunModule is running or has just finished the module of result
InModule == pc \in {"step", "check", "apply", "post", "return"}

\* the results known so far: those appended, and the one being filled
KnownResults ==
    {results[k] : k \in 1..Len(results)} \cup (IF InModule THEN {result} ELSE {})

\* the result of module m, which has been or is being run
ResultOf(m) == CHOOSE r \in KnownResults : r.ModuleID = m

\* C8 (history): no apply is in the history for a step whose check
\* returned true, and the skipped count of the module's result is the
\* number of its checks that returned true.
NoApplyAfterTrueCheck ==
    /\ \A k \in 1..Len(trace) :
          (trace[k].op = "check" /\ trace[k].val) =>
              CallsOf("apply", trace[k].mod, trace[k].step) = {}
    /\ \A r \in KnownResults : r.Skipped = CountOf("check", r.ModuleID, TRUE)

\* C8 (control): the step in which a check returns true goes to the
\* callback with skipped=true, one more skipped step and no failure; the
\* callback of a skipped step is followed by the head of the loop for the
\* next step.
SkipContinues ==
    /\ (/\ Len(trace') = Len(trace) + 1
        /\ trace'[Len(trace')].op = "check"
        /\ trace'[Len(trace')].val) =>
          /\ pc' = "post" /\ skipped'
          /\ result' = [result EXCEPT !.Skipped = @ + 1]
          /\ result'.Err = NoErr /\ result'.FailedStep = ""
    /\ (pc = "post" /\ skipped) =>
          /\ pc' = "step" /\ si' = si + 1 /\ result' = result
          /\ callback => trace' = Append(trace, Call("post", result.ModuleID, si, TRUE, NoErr))

\* C8: in either mode RunModule never invokes the apply of a step whose
\* check returned true; the step is counted as skipped and RunModule goes on
\* with the next step.
C8_CheckSkip == []NoApplyAfterTrueCheck /\ [][SkipContinues]_vars

\* the first step of a module skipped on its check and the second applied
C8_Witness ==
    \E m \in IDSet :
        /\ \E k \in CallsOf("check", m, 1) : trace[k].val
        /\ CallsOf("apply", m, 2) # {}

\* the first step skipped on its check in dry-run mode, the second described
C8_WitnessDryRun ==
    /\ dryRun
    /\ \E m \in IDSet :
          /\ \E k \in CallsOf("check", m, 1) : trace[k].val
          /\ CallsOf("dryrun", m, 2) # {}

\* C9: once the apply of a step has returned an error, the only call that
\* follows is the callback of that step, with the error; RunModule returns
\* a result whose failed step is the name of that step, whose error is not
\* nil, and whose completed and skipped counts are those of the steps
\* before it.
C9_FailFast ==
    \A k \in 1..Len(trace) :
        (trace[k].op = "apply" /\ ~trace[k].val) =>
            LET m == trace[k].mod
                i == trace[k].step
                r == ResultOf(m)
            IN  /\ \A j \in (k + 1)..Len(trace) :
                      /\ j = k + 1
                      /\ trace[j].op = "post" /\ trace[j].mod = m /\ trace[j].step = i
                      /\ ~trace[j].val
                      /\ trace[j].err = RunFailure(m, modules[m].Steps[i].Name)
                /\ pc \in {"post", "return", "returned"}
                /\ callback => (pc = "post" <=> k = Len(trace))
                /\ r.FailedStep = modules[m].Steps[i].Name
                /\ r.Err.kind # "none"
                /\ r.Completed = CountOf("apply", m, TRUE)
                /\ r.Skipped = CountOf("check", m, TRUE)
                /\ r.Completed + r.Skipped = i - 1
                /\ pc = "returned" => results[Len(results)] = r

\* RunModules has returned after the first step of a module of two steps
\* failed, and hooks were set
C9_Witness ==
    /\ pc = "returned" /\ callback
    /\ \E m \in IDSet :
          /\ \E k \in CallsOf("apply", m, 1) : ~trace[k].val
          /\ Len(modules[m].Steps) = 2

\* RunModules has returned after the second step of a module failed, the
\* first having been applied
C9_WitnessSecond ==
    /\ pc = "returned"
    /\ \E m \in IDSet :
          /\ \E k \in CallsOf("apply", m, 2) : ~trace[k].val
          /\ CallsOf("apply", m, 1) # {}

\* C10: with dry-run enabled no apply is ever invoked, and every module
\* result has a nil error and an empty failed step.
C10_DryRun ==
    dryRun =>
        /\ \A k \in 1..Len(trace) : trace[k].op # "apply"
        /\ pc # "apply"
        /\ \A r \in KnownResults : r.Err = NoErr /\ r.FailedStep = ""

\* a dry run of two modules or more has returned, with checks that
\* returned true and checks that returned false
C10_Witness ==
    /\ dryRun /\ pc = "returned" /\ Len(results) >= 2
    /\ \E k \in 1..Len(trace) : trace[k].op = "check" /\ trace[k].val
    /\ \E k \in 1..Len(trace) : trace[k].op = "check" /\ ~trace[k].val

\* the callbacks after the steps of a dry run all carry skipped=true and
\* no error
DryRunHookSkipped ==
    dryRun =>
        \A k \in 1..Len(trace) :
            trace[k].op = "post" => (trace[k].val /\ trace[k].err = NoErr)

\* C11: in dry-run mode a step whose check returned false is counted as
\* skipped and its callback is called with skipped=true and no error, so
\* that the result of every module of a dry run has skipped equal to its
\* total number of steps.
C11_DryRunCountsSkipped ==
    /\ DryRunHookSkipped
    /\ dryRun => \A k \in 1..Len(results) : results[k].Skipped = results[k].Total

\* the calls of the history made for the module m
CallsFor(m) == {k \in 1..Len(trace) : trace[k].mod = m}

\* C12: RunModules stops at the first module whose result carries an
\* error: that result is the last one, the results before it are those of
\* the modules before it in the resolved order, all without error,
\* RunModules has returned with that error, and no call was made for a
\* module later in the resolved order.
C12_StopsAtFirstFailure ==
    \A k \in 1..Len(results) :
        results[k].Err # NoErr =>
            /\ k = Len(results)
            /\ pc = "returned"
            /\ runErr = results[k].Err /\ runErr.kind # "none"
            /\ \A j \in 1..k : results[j].ModuleID = sorted[j]
            /\ \A j \in 1..(k - 1) : results[j].Err = NoErr /\ results[j].FailedStep = ""
            /\ \A j \in (k + 1)..Len(sorted) : CallsFor(sorted[j]) = {}

\* a module failed which is not the last of the resolved order
C12_Witness ==
    /\ pc = "returned" /\ Len(results) >= 1
    /\ results[Len(results)].Err # NoErr
    /\ Len(results) < Len(sorted)

\* the second module failed after the first succeeded with an apply
C12_WitnessSecond ==
    /\ pc = "returned" /\ Len(results) = 2
    /\ results[2].Err # NoErr
    /\ results[1].Completed >= 1

\* C13: when ResolveDeps fails, RunModules returns its error, wrapped, and
\* no results, and no hook, check or apply has been invoked.
C13_ResolutionFailure ==
    (Called /\ ~Succeeded) =>
        /\ pc = "returned"
        /\ runErr = ResolvingErr(res.err)
        /\ runErr.kind # "none" /\ runErr.cause \in {"missing", "cycle"}
        /\ results = <<>>
        /\ trace = <<>>

\* RunModules returned on a dependency cycle
C13_Witness == pc = "returned" /\ res.err.kind = "cycle" /\ HasCycle(req)

\* RunModules returned on a missing dependency
C13_WitnessMissing ==
    pc = "returned" /\ res.err.kind = "missing" /\ ~FullyRegistered(req)

\* the module m has been run through its last step without error
RanThrough(m) ==
    \E j \in 1..Len(results) :
        /\ results[j].ModuleID = m
        /\ results[j].Err = NoErr /\ results[j].FailedStep = ""
        /\ ~dryRun => results[j].Completed + results[j].Skipped = results[j].Total

\* C14: a call is made for a step of a module only after every module it
\* depends on, directly or transitively, has been run through its last step
\* without error; the calls follow the resolved order, one module after
\* another, and there is one result per module run, in that order.
C14_DependenciesFirst ==
    /\ \A k \in 1..Len(trace) : \A d \in DependsOn(trace[k].mod) : RanThrough(d)
    /\ InModule => \A d \in DependsOn(result.ModuleID) : RanThrough(d)
    /\ \A i, j \in 1..Len(trace) :
          i < j => PosIn(sorted, trace[i].mod) <= PosIn(sorted, trace[j].mod)
    /\ \A k \in 1..Len(trace) : PosIn(sorted, trace[k].mod) >= 1
    /\ Len(results) <= Len(sorted)
    /\ \A j \in 1..Len(results) : results[j].ModuleID = sorted[j]
    /\ InModule => Len(results) = mi - 1
    /\ (pc = "returned" /\ runErr = NoErr) => Len(results) = Len(sorted)

\* a chain of three modules has been run, the last registered first
C14_Witness ==
    /\ pc = "returned" /\ runErr = NoErr /\ Len(results) = 3
    /\ sorted # IDs
    /\ \E m \in IDSet : Cardinality(DependsOn(m)) = 2
    /\ \A k \in 1..3 : CallsFor(sorted[k]) # {}

-----------------------------------------------------------------------------
(* Claims about the Bridge.                                                *)

\* the event that ends step i (counted from 1) of module m, from what its
\* check and its apply returned: skipped on a true check or in a dry run,
\* done after an apply without error, an error otherwise
StepOutcome(m, i) ==
    LET name == modules[m].Steps[i].Name
    IN  IF \E k \in CallsOf("check", m, i) : trace[k].val
        THEN StepDoneMsg(m, i - 1, TRUE)
        ELSE IF CallsOf("apply", m, i) = {}
        THEN StepDoneMsg(m, i - 1, TRUE)
        ELSE IF \E k \in CallsOf("apply", m, i) : trace[k].val
        THEN StepDoneMsg(m, i - 1, FALSE)
        ELSE StepErrorMsg(m, i - 1, RunFailure(m, name))

\* the events of the first n steps of module m
RECURSIVE ExpectedSteps(_, _)
ExpectedSteps(m, n) ==
    IF n = 0 THEN <<>>
    ELSE ExpectedSteps(m, n - 1) \o <<StepStartMsg(m, n - 1), StepOutcome(m, n)>>

\* the number of steps processed for a result: all, or those up to the
\* failed one
StepsProcessed(r) ==
    IF r.Err = NoErr THEN r.Total
    ELSE CHOOSE i \in 1..r.Total : modules[r.ModuleID].Steps[i].Name = r.FailedStep

\* the events of the first j modules run
RECURSIVE ExpectedModules(_)
ExpectedModules(j) ==
    IF j = 0 THEN <<>>
    ELSE ExpectedModules(j - 1)
            \o <<ModuleStartMsg(modules[results[j].ModuleID])>>
            \o ExpectedSteps(results[j].ModuleID, StepsProcessed(results[j]))

\* the events of a whole run whose resolution succeeded
ExpectedEvents == ExpectedModules(Len(results)) \o <<AllDoneMsg(results)>>

\* the results are those of the modules of the resolved order up to and
\* including the first that failed
ResultsUpToFailure ==
    /\ Len(results) <= Len(sorted)
    /\ \A j \in 1..Len(results) : results[j].ModuleID = sorted[j]
    /\ \A j \in 1..(Len(results) - 1) : results[j].Err = NoErr
    /\ Len(results) = Len(sorted) \/ results[Len(results)].Err # NoErr

\* C15: in a run that is never cancelled and whose resolution succeeds, the
\* events sent when run has ended, and the events received when the stream
\* has ended, are exactly: for each module in resolved order up to and
\* including the first failing one a ModuleStart and, for each step processed,
\* a StepStart followed by the StepDone or StepError of the same index; then
\* one AllDone, last, with one result per module started.
C15_EventOrder ==
    Succeeded =>
        /\ pc = "done" => (handed = ExpectedEvents /\ ResultsUpToFailure)
        /\ StreamEnded => received = ExpectedEvents \o <<NilMsg>>
        /\ \A k \in 1..Len(handed) :
              handed[k].type = "AllDone" => (k = Len(handed) /\ pc \in {"close", "done"})

\* the stream ended after a run of two modules, the second of which failed
\* on its second step after a skipped first step
C15_Witness ==
    /\ StreamEnded /\ Len(results) = 2
    /\ results[2].Err # NoErr /\ results[2].Skipped = 1
    /\ results[1].Completed >= 1

\* the stream ended after a dry run of a module of two steps
C15_WitnessDryRun ==
    /\ StreamEnded /\ dryRun /\ Len(results) >= 1 /\ results[1].Total = 2

\* C16: when the resolution fails in a run that is never cancelled, the one
\* event sent is a RunError with the resolution error, received before the
\* end of the stream, and no check or apply is invoked.
C16_RunErrorOnly ==
    (Called /\ ~Succeeded) =>
        /\ res.err.kind \in {"missing", "cycle"}
        /\ Len(handed) <= 1
        /\ \A k \in 1..Len(handed) :
              handed[k].type = "RunError" /\ handed[k].err = res.err
        /\ pc \in {"close", "done"} => Len(handed) = 1
        /\ StreamEnded => received = handed \o <<NilMsg>>
        /\ trace = <<>>
        /\ results = <<>>

\* the stream ended after a dependency cycle
C16_Witness == StreamEnded /\ res.err.kind = "cycle"

\* the stream ended after a missing dependency
C16_WitnessMissing == StreamEnded /\ res.err.kind = "missing"

\* the messages received without the nil that ends the stream
Delivered ==
    IF StreamEnded THEN SubSeq(received, 1, Len(received) - 1) ELSE received

\* C17: in a run that is never cancelled the events received, followed by
\* those still in the channel, are the events sent, in the order sent; the
\* nil message is returned only once, last, after every event.
C17_ExactlyOnceInOrder ==
    /\ handed = Delivered \o msgs
    /\ \A k \in 1..Len(Delivered) : Delivered[k] # NilMsg
    /\ StreamEnded => (closed /\ msgs = <<>> /\ Delivered = handed)
    /\ Len(msgs) <= QueueCap

\* the channel is full while the front end has received events
C17_Witness == Len(msgs) = QueueCap /\ Len(received) >= 2 /\ pc = "startsend"

\* the stream ended after six events or more
C17_WitnessEnded == StreamEnded /\ Len(handed) >= 6

\* Cancel was called after Start and before any message was received
CancelledBeforeConsuming ==
    \E c \in 1..Len(trace) :
        trace[c].op = "cancel" /\ trace[c].val /\ trace[c].step = 0

\* C18: if Cancel is called after Start and before any event is consumed,
\* and the goroutine and the front end keep taking their steps, the front end
\* receives the nil message that ends the stream.
C18_CancelEndsStream == CancelledBeforeConsuming ~> StreamEnded

\* the stream ended, after events, in a run cancelled before any was consumed
C18_Witness ==
    CancelledBeforeConsuming /\ StreamEnded /\ Len(received) >= 3

\* the stream ended without any event, the run cancelled before the first
\* was sent
C18_WitnessNoEvent ==
    CancelledBeforeConsuming /\ received = <<NilMsg>> /\ handed = <<>>

\* Cancel has been called and run, started, has not ended
CancelledRunning == cancelled /\ pc \notin {"idle", "done"}

\* C19: once Cancel has been called the goroutine always has a step to
\* take, a send included, whatever the channel holds and whether or not the
\* front end reads; it reaches the end of run and the channel is closed.
C19_WorkerNeverBlocked ==
    /\ [](CancelledRunning => ENABLED Worker)
    /\ (cancelled /\ pc # "idle") ~> (pc = "done" /\ closed)

\* run ended and closed the channel, which is full, in a cancelled run
\* in which no message was ever received
C19_Witness ==
    /\ cancelled /\ pc = "done" /\ closed
    /\ Len(msgs) = QueueCap /\ received = <<>>
    /\ Len(handed) = QueueCap
    /\ trace[1].op # "cancel"
    /\ \E k \in 1..Len(trace) : trace[k].op = "post"

\* the step i of module m began, its pre-step callback invoked, before the
\* entry c of the history
BegunBefore(c, m, i) ==
    \E j \in 1..(c - 1) :
        trace[j].op = "pre" /\ trace[j].mod = m /\ trace[j].step = i

\* the entry of the history that notes the Cancel call (0: none)
CancelAt ==
    IF \E c \in 1..Len(trace) : trace[c].op = "cancel"
    THEN CHOOSE c \in 1..Len(trace) : trace[c].op = "cancel"
    ELSE 0

\* Cancel was called after Start
CancelledAfterStart == CancelAt # 0 /\ trace[CancelAt].val

\* C20 (history): after a Cancel call that follows Start no step begins,
\* and no check or apply is invoked but those of a step begun before it.
NoStepBeginsAfterCancel ==
    CancelledAfterStart =>
        \A k \in (CancelAt + 1)..Len(trace) :
            /\ trace[k].op # "pre"
            /\ trace[k].op \in {"check", "apply"} =>
                  BegunBefore(CancelAt, trace[k].mod, trace[k].step)

\* C20 (events): once cancelled, no ModuleStart is sent, and no StepStart
\* but that of a step begun before the Cancel call.
NoStartAfterCancel ==
    (CancelledAfterStart /\ handed' # handed) =>
        LET e == handed'[Len(handed')]
        IN  /\ e.type # "ModuleStart"
            /\ e.type = "StepStart" => BegunBefore(CancelAt, e.mod, e.index + 1)

\* C20: after Cancel has been called no further step begins executing: no
\* check or apply of a step that had not begun before the cancellation is
\* invoked, no StepStart of a later step is sent, and no further module is
\* started.
C20_NoStepAfterCancel == []NoStepBeginsAfterCancel /\ [][NoStartAfterCancel]_vars

\* the apply of the second step of a module was invoked although Cancel
\* was called while the first step was in its apply
C20_ApplyAfterCancel ==
    \E m \in IDSet :
        /\ CancelledAfterStart
        /\ CallsOf("apply", m, 2) # {}
        /\ \E k \in CallsOf("apply", m, 1) : CancelAt = k - 1
        /\ \A k \in CallsOf("pre", m, 2) : k > CancelAt

\* C21: after Cancel has been called (Start having been called before) no
\* delivery attempt adds an event to the channel.
C21_NoEventAfterCancel == [][CancelledAfterStart => handed' = handed]_vars

\* the sequence s is a first part of the sequence t
IsPrefix(s, t) == Len(s) <= Len(t) /\ SubSeq(t, 1, Len(s)) = s

\* a StepDone or StepError follows the StepStart of its step, a StepStart
\* follows the ModuleStart of its module, an AllDone is last
WellFormedEvents(es) ==
    \A k \in 1..Len(es) :
        /\ es[k].type \in {"StepDone", "StepError"} =>
              /\ k > 1
              /\ es[k - 1].type = "StepStart"
              /\ es[k - 1].mod = es[k].mod /\ es[k - 1].index = es[k].index
        /\ es[k].type = "StepStart" =>
              \E j \in 1..(k - 1) : es[j].type = "ModuleStart" /\ es[j].mod = es[k].mod
        /\ es[k].type = "AllDone" => k = Len(es)

\* C22: in every run, cancelled or not, the events received are well formed
\* and, once run has ended, a first part of the events of the run with none
\* left out.
C22_ReceivedIsPrefix ==
    /\ WellFormedEvents(Delivered)
    /\ (pc = "done" /\ Succeeded) => IsPrefix(Delivered, ExpectedEvents)

\* where run stands when it is about to send, or is inside send
SendPoints == {"runerror", "modstart", "startsend", "post", "alldone"}

\* C23: without cancellation the goroutine is never blocked in a send,
\* however slowly the front end receives and however many events the run
\* produces.
C23_NeverBlocked == (~cancelled /\ pc \in SendPoints) => ENABLED Worker

\* C23, as the code has it: without cancellation the goroutine is blocked
\* in a send exactly while the channel holds as many events, sent and not yet
\* received, as its capacity; a run that sends no more events than the
\* capacity is never blocked.
C23_BlockedOnlyWhenFull ==
    /\ Len(msgs) = Len(handed) - Len(Delivered)
    /\ (~cancelled /\ pc \in SendPoints) => (ENABLED Worker <=> Len(msgs) < QueueCap)

\* a run of as many events as the channel holds ended while the front end
\* had received nothing
C23_Witness ==
    /\ ~cancelled /\ pc = "done" /\ received = <<>>
    /\ Len(handed) = QueueCap

\* the goroutine is blocked in the send of a StepStart on a full channel
C23_WitnessBlocked ==
    /\ ~cancelled /\ pc = "startsend" /\ Len(msgs) = QueueCap
    /\ ~ENABLED Worker

\* the terminal events among the messages received
Terminals == {k \in 1..Len(received) : received[k].type \in {"AllDone", "RunError"}}

\* one terminal event, then nil messages only
EndsOnce ==
    /\ Cardinality(Terminals) <= 1
    /\ \A k \in 1..Len(received) :
          received[k] = NilMsg =>
              /\ Cardinality(Terminals) = 1
              /\ k > 1 /\ (received[k - 1] = NilMsg \/ k - 1 \in Terminals)
    /\ (StreamEnded /\ NilReads <= MaxExtraReads) => ENABLED NextMsgAfterEnd

\* C24: in a run that is never cancelled, in which every check and apply
\* terminates and the front end keeps asking, the front end receives exactly
\* one terminal event, AllDone or RunError, then the nil message; every
\* NextMsg command run after that returns the nil message at once.
C24_OneTerminalThenNil ==
    /\ []EndsOnce
    /\ (pc # "idle") ~> (StreamEnded /\ Cardinality(Terminals) = 1)

\* nil was returned again, after the nil that followed an AllDone
C24_Witness ==
    /\ NilReads >= 2
    /\ \E k \in Terminals : received[k].type = "AllDone" /\ Len(received[k].results) >= 1

\* nil was returned again, after the nil that followed a RunError
C24_WitnessRunError ==
    /\ NilReads >= 2
    /\ \E k \in Terminals : received[k].type = "RunError"

\* the step added a check, a description or an apply to the history
StepExecutes ==
    /\ Len(trace') = Len(trace) + 1
    /\ trace'[Len(trace')].op \in {"check", "dryrun", "apply"}

\* a check or an apply is invoked by a step of the goroutine run, the only
\* one, standing at that step, and by no step of Update or of a command
ExecutesOnWorker ==
    StepExecutes =>
        /\ workers = 1 /\ workers' = 1
        /\ pc \in {"check", "apply"}
        /\ pc' # pc
        /\ UNCHANGED <<wizardVars, received>>

\* C25: a session of the wizard starts at most one goroutine whatever the
\* messages Update is given, and every check and apply is invoked by that
\* goroutine, one at a time, never by Update or a command of the front end.
C25_SingleWorker == [](workers <= 1) /\ [][ExecutesOnWorker]_vars

\* an apply is running on the goroutine of a wizard that was given a
\* second PickerConfirmMsg after it left the picker
C25_Witness ==
    /\ confirms = 2 /\ workers = 1 /\ pc = "apply"
    /\ screen # screenPicker

\* the check of step i of module m returned true
CheckedTrue(m, i) == \E k \in CallsOf("check", m, i) : trace[k].val

\* the apply of step i of module m returned nil
ApplyOk(m, i) == \E k \in CallsOf("apply", m, i) : trace[k].val

\* the apply of step i of module m returned an error
ApplyFailed(m, i) == \E k \in CallsOf("apply", m, i) : ~trace[k].val

\* the result r accounts for the steps of its module that were processed
Accounts(r) ==
    LET m == r.ModuleID
        steps == modules[m].Steps
        handled == {i \in 1..Len(steps) : CheckedTrue(m, i) \/ ApplyOk(m, i)}
    IN  /\ r.Total = Len(steps)
        /\ r.Skipped = Cardinality({i \in 1..Len(steps) : CheckedTrue(m, i)})
        /\ r.Completed = Cardinality({i \in 1..Len(steps) : ApplyOk(m, i)})
        /\ IF r.Err = NoErr
           THEN /\ r.Completed + r.Skipped = r.Total
                /\ r.FailedStep = ""
                /\ handled = 1..Len(steps)
           ELSE \E i \in 1..Len(steps) :
                    /\ ApplyFailed(m, i)
                    /\ \A j \in 1..(i - 1) : ~ApplyFailed(m, j)
                    /\ r.FailedStep = steps[i].Name
                    /\ r.Err = StepErr(m, steps[i].Name)
                    /\ handled = 1..(i - 1)
                    /\ r.Completed + r.Skipped = i - 1

\* C27: when dry-run is off every ModuleResult RunModule returned accounts
\* for the steps processed: without error, completed + skipped = total and
\* every step was applied or skipped; with an error, the failed step is the
\* first step whose apply returned an error and completed + skipped is the
\* number of steps before it.
C27_Accounting ==
    ~dryRun => \A k \in 1..Len(results) : Accounts(results[k])

\* a module failed in its second step after one step was skipped or applied
C27_Witness ==
    /\ ~dryRun
    /\ \E k \in 1..Len(results) :
          /\ results[k].Err # NoErr
          /\ results[k].Completed + results[k].Skipped = 1
          /\ results[k].FailedStep = "s2"

\* a module was run without error, one step skipped and one applied
C27_WitnessNoError ==
    /\ ~dryRun
    /\ \E k \in 1..Len(results) :
          /\ results[k].Err = NoErr
          /\ results[k].Completed = 1 /\ results[k].Skipped = 1

\* the place of a call among the calls made for one step
Rank(op) ==
    CASE op = "pre" -> 1
      [] op = "check" -> 2
      [] op = "dryrun" -> 3
      [] op = "apply" -> 4
      [] op = "post" -> 5

\* the calls made for the steps of one module come step after step, and
\* for one step in the order pre, check, apply, post, each once at most
StepCallsInOrder ==
    \A k, l \in 1..Len(trace) :
        (k < l /\ trace[k].mod = trace[l].mod) =>
            \/ trace[k].step < trace[l].step
            \/ /\ trace[k].step = trace[l].step
               /\ Rank(trace[k].op) < Rank(trace[l].op)

\* apply is invoked only with dry-run off, after the hook and the check
\* that are set, and the check returned false
ApplyOnlyWhenDue ==
    \A k \in 1..Len(trace) :
        trace[k].op = "apply" =>
            LET m == trace[k].mod
                i == trace[k].step
            IN  /\ ~dryRun
                /\ ~CheckedTrue(m, i)
                /\ preCallback => CallsOf("pre", m, i) # {}
                /\ modules[m].Steps[i].Check => CallsOf("check", m, i) # {}

\* the post-step hook is told what became of the step
PostTellsOutcome ==
    \A k \in 1..Len(trace) :
        trace[k].op = "post" =>
            LET m == trace[k].mod
                i == trace[k].step
                name == modules[m].Steps[i].Name
            IN  /\ preCallback => CallsOf("pre", m, i) # {}
                /\ modules[m].Steps[i].Check => CallsOf("check", m, i) # {}
                /\ CheckedTrue(m, i) => (trace[k].val /\ trace[k].err = NoErr)
                /\ ApplyOk(m, i) => (~trace[k].val /\ trace[k].err = NoErr)
                /\ ApplyFailed(m, i) =>
                      (~trace[k].val /\ trace[k].err = RunFailure(m, name))
                /\ (~dryRun /\ ~CheckedTrue(m, i)) => CallsOf("apply", m, i) # {}

\* C28: for every step RunModule visits the calls come in the order
\* pre-step hook, check, apply, post-step hook, each once at most; apply is
\* invoked only if the check was false and dry-run is off; the post-step hook
\* gets skipped=true and no error for a skip, skipped=false and no error for a
\* success, the error for a failure; no step is entered again.
C28_StepCallOrder == StepCallsInOrder /\ ApplyOnlyWhenDue /\ PostTellsOutcome

\* the hooks were called around a skip in step 1 and a failure in step 2
C28_Witness ==
    /\ preCallback /\ callback
    /\ \E m \in DOMAIN modules :
          /\ CheckedTrue(m, 1) /\ CallsOf("post", m, 1) # {}
          /\ ApplyFailed(m, 2) /\ CallsOf("post", m, 2) # {}
          /\ CallsOf("pre", m, 2) # {} /\ CallsOf("check", m, 2) # {}

\* step i of module m was reached in the run before: its check was called
ReachedBefore(m, i) ==
    \E k \in 1..Len(prev.trace) :
        prev.trace[k].op = "check" /\ prev.trace[k].mod = m /\ prev.trace[k].step = i

\* the apply of step i of module m returned an error in the run before
FailedBefore(m, i) ==
    \E k \in 1..Len(prev.trace) :
        /\ prev.trace[k].op = "apply" /\ ~prev.trace[k].val
        /\ prev.trace[k].mod = m /\ prev.trace[k].step = i

\* a rerun applies only the step that failed and the steps not reached in
\* the run before, and skips every step applied in an earlier run
RerunResumes ==
    /\ \A k \in 1..Len(trace) :
          trace[k].op = "apply" =>
              /\ <<trace[k].mod, trace[k].step>> \notin prev.applied
              /\ \/ FailedBefore(trace[k].mod, trace[k].step)
                 \/ ~ReachedBefore(trace[k].mod, trace[k].step)
    /\ \A a \in prev.applied :
          CallsOf("check", a[1], a[2]) # {} =>
              /\ CheckedTrue(a[1], a[2])
              /\ CallsOf("apply", a[1], a[2]) = {}

\* a rerun after a run without error invokes no apply and reports every
\* step of every module skipped
RerunAfterSuccess ==
    (prev.runErr = NoErr /\ pc = "returned") =>
        /\ runErr = NoErr
        /\ \A k \in 1..Len(trace) : trace[k].op # "apply"
        /\ Len(results) = Len(prev.results)
        /\ \A k \in 1..Len(results) :
              /\ results[k].ModuleID = prev.results[k].ModuleID
              /\ results[k].Completed = 0
              /\ results[k].Skipped = results[k].Total
              /\ results[k].Err = NoErr

\* C26: when every check is true exactly when the apply of its step has
\* succeeded in an earlier run, a rerun of RunModules for the same request
\* after a failed run invokes apply only for the step that failed and the
\* steps that had not been reached, every step applied before being skipped;
\* a rerun after a run without error invokes no apply and reports
\* completed = 0 and skipped = total for every module.
C26_IdempotentRerun == prev.runs >= 1 => (RerunResumes /\ RerunAfterSuccess)

\* the rerun, after a run that failed in the second step of a module,
\* skipped the first step, applied the second and returned without error
C26_Witness ==
    /\ prev.runs = 1 /\ pc = "returned" /\ runErr = NoErr
    /\ \E m \in DOMAIN modules :
          /\ FailedBefore(m, 2) /\ <<m, 1>> \in prev.applied
          /\ CheckedTrue(m, 1) /\ ApplyOk(m, 2)

\* the rerun after a run without error returned two steps skipped
C26_WitnessAfterSuccess ==
    /\ prev.runs >= 1 /\ pc = "returned" /\ prev.runErr = NoErr
    /\ results # <<>> /\ results[1].Skipped = 2
    /\ Cardinality(prev.applied) >= 2

\* the hooks and checks called in a history, each with its module and the
\* index of its step
Flow(t) ==
    LET h == SelectSeq(t, LAMBDA e : e.op \in {"pre", "check", "post"})
    IN  [k \in 1..Len(h) |-> <<h[k].op, h[k].mod, h[k].step>>]

\* C29: a dry run, for the same modules and the same check outcomes, calls
\* the pre-step and post-step hooks and the checks for the same steps in the
\* same order as a normal run in which every apply succeeds, runs the same
\* modules, and calls no apply.
C29_DryRunSameFlow ==
    (prev.runs = 1 /\ dryRun) =>
        /\ IsPrefix(Flow(trace), Flow(prev.trace))
        /\ \A k \in 1..Len(trace) : trace[k].op # "apply"
        /\ pc = "returned" =>
              /\ Flow(trace) = Flow(prev.trace)
              /\ (runErr = NoErr) <=> (prev.runErr = NoErr)
              /\ Len(results) = Len(prev.results)
              /\ \A k \in 1..Len(results) :
                    /\ results[k].ModuleID = prev.results[k].ModuleID
                    /\ results[k].Err = NoErr

\* the dry run returned after the hooks of two modules, of which the normal
\* run had applied a step and skipped another
C29_Witness ==
    /\ prev.runs = 1 /\ dryRun /\ pc = "returned" /\ callback
    /\ Len(results) = 2
    /\ \E k \in 1..Len(prev.trace) : prev.trace[k].op = "apply"
    /\ \E k \in 1..Len(prev.trace) : prev.trace[k].op = "check" /\ prev.trace[k].val
    /\ \E k \in 1..Len(trace) : trace[k].op = "post" /\ trace[k].step = 2

\* the checks, descriptions and applies called in a history, each with its
\* module, the index of its step and what it returned
Calls(t) ==
    LET h == SelectSeq(t, LAMBDA e : e.op \in {"check", "dryrun", "apply"})
    IN  [k \in 1..Len(h) |-> <<h[k].op, h[k].mod, h[k].step, h[k].val>>]

\* the events of this type handed to the channel
HandedOf(type) == {k \in 1..Len(handed) : handed[k].type = type}

\* C30: a run of the Bridge that is not cancelled, for the registry, the
\* request and the step behaviours of a RunModules call, invokes the same
\* checks and applies in the same order, stops at the same module, and its
\* AllDone carries the results RunModules returned.
C30_BridgeAsRunModules ==
    prev.runs = 1 =>
        /\ IsPrefix(Calls(trace), Calls(prev.trace))
        /\ IsPrefix(results, prev.results)
        /\ \A k \in HandedOf("AllDone") :
              /\ handed[k].results = prev.results
              /\ Calls(trace) = Calls(prev.trace)
        /\ pc = "done" =>
              /\ Calls(trace) = Calls(prev.trace)
              /\ results = prev.results
              /\ (HandedOf("AllDone") # {}) <=> (prev.runErr.kind # "resolving")
              /\ (HandedOf("RunError") # {}) <=> (prev.runErr.kind = "resolving")

\* the Bridge sent AllDone with the one result of a run of two modules
\* that RunModules had stopped at the first module, whose apply failed
C30_Witness ==
    /\ prev.runs = 1 /\ pc = "done"
    /\ Len(sorted) = 2 /\ Len(prev.results) = 1
    /\ prev.results[1].Err # NoErr
    /\ \E k \in HandedOf("AllDone") : Len(handed[k].results) = 1
    /\ \E k \in 1..Len(trace) : trace[k].op = "apply" /\ ~trace[k].val

\* the Bridge sent AllDone with the two results of a run without error
C30_WitnessNoError ==
    /\ prev.runs = 1 /\ pc = "done"
    /\ prev.runErr = NoErr /\ Len(prev.results) = 2
    /\ \E k \in HandedOf("AllDone") : Len(handed[k].results) = 2
    /\ \E k \in 1..Len(trace) : trace[k].op = "apply"

\* a module of the needed set names the same dependency twice
RepeatedDependency(ids) ==
    \E x \in NeededSet(ids) \cap DOMAIN modules :
        ~NoRepeats(modules[x].Dependencies)

\* C36: ResolveDeps returns the cycle error only when the needed set
\* contains a cycle; for an acyclic, fully registered needed set it returns
\* an order of the whole needed set, also when a dependency list names the
\* same dependency more than once.
C36_CycleErrorOnlyOnCycle ==
    Called =>
        /\ res.err.kind = "cycle" => HasCycle(req)
        /\ (FullyRegistered(req) /\ ~HasCycle(req)) =>
              /\ res.err.kind = "none"
              /\ Len(res.order) = Cardinality(NeededSet(req))

\* the cycle error for an acyclic needed set with a repeated dependency
C36_FalseCycle ==
    /\ Called /\ res.err.kind = "cycle"
    /\ FullyRegistered(req) /\ ~HasCycle(req)
    /\ RepeatedDependency(req)

\* no Register call was made since the latest ResolveDeps call returned
Fresh == Called /\ resAt = Len(regLog)

\* the result is the one the registry as it stands calls for: an order of
\* the needed set in which every module stands after its dependencies, or
\* the error of a missing module or of a cycle
FollowsRegistry ==
    /\ Succeeded <=> (FullyRegistered(req) /\ ~HasCycle(req))
    /\ Succeeded =>
          /\ Range(res.order) = NeededSet(req)
          /\ NoRepeats(res.order)
          /\ \A i \in 1..Len(res.order) : \A d \in DepsOf(res.order[i]) :
                \E j \in 1..(i - 1) : res.order[j] = d
    /\ ~Succeeded =>
          /\ res.order = <<>>
          /\ res.err.kind = IF FullyRegistered(req) THEN "cycle" ELSE "missing"

\* the registry is the one the Register calls made, whatever ResolveDeps
\* calls came between them
RegistryUntouched ==
    /\ modules = RegistryOf(regLog).modules
    /\ order = RegistryOf(regLog).order

\* C35: ResolveDeps leaves the modules and the insertion order of the
\* registry as they are, and its result follows from the registry as it
\* stands at the call: after a module was registered again with other
\* dependencies the next call orders the modules by the new dependencies
\* only, whatever earlier calls returned.
C35_ResolveDepsStateless ==
    /\ [](Fresh => FollowsRegistry)
    /\ []RegistryUntouched
    /\ [][regLog' = regLog => (modules' = modules /\ order' = order)]_vars

\* a module x was registered depending on d, then registered again without
\* it while d was registered depending on x, and the call returned x before d
C35_Witness ==
    /\ Fresh /\ Succeeded
    /\ \E x, d \in ReregisterIDs :
          /\ x # d
          /\ res.order = <<x, d>>
          /\ \E i \in 1..Len(regLog) :
                regLog[i].ID = x /\ regLog[i].Dependencies = <<d>>

\* every step of module m was applied or found satisfied
AllStepsDone(m) ==
    \A i \in 1..Len(modules[m].Steps) : CheckedTrue(m, i) \/ ApplyOk(m, i)

\* a step leaves the installed modules alone in a dry run, and adds a
\* module only when its result has no error and all its steps were applied
\* or satisfied
InstalledOnlyWhenDone ==
    /\ dryRun => installed' = installed
    /\ IsPrefix(installed, installed')
    /\ \A m \in Range(installed') \ Range(installed) :
          /\ m \in DOMAIN modules
          /\ \E k \in 1..Len(results) :
                results[k].ModuleID = m /\ results[k].Err = NoErr
          /\ AllStepsDone(m)

\* C38: the non-interactive setup path in dry-run mode leaves the installed
\* modules of the state as they were loaded; in either mode a module is
\* added only if all its steps were applied or already satisfied, without
\* error.
C38_DryRunRecordsNothing == [][InstalledOnlyWhenDone]_vars

\* a dry run was saved with a module installed whose step was only
\* described
C38_DryRunInstalled ==
    /\ dryRun /\ pc = "saved"
    /\ \E m \in Range(installed) :
          /\ m \in DOMAIN modules
          /\ CallsOf("dryrun", m, 1) # {}
          /\ ~AllStepsDone(m)

\* the module of the row under the cursor, "" on a header or outside
current == IF cursor < 0 \/ cursor >= Len(items) THEN "" ELSE items[cursor + 1].module

\* the base modules of the registry
BaseModules == {id \in DOMAIN modules : modules[id].Category = CategoryBase}

\* C33: in the module picker every module of the base category is selected
\* initially and after any sequence of key presses.
C33_BaseStaysSelected == BaseModules \subseteq selected

\* the toggle key was pressed on the row of a base module that another
\* module had pulled in as its dependency, with that module toggled off
\* again
C33_Witness ==
    /\ lastKey = " "
    /\ current \in BaseModules
    /\ \E id \in DOMAIN modules \ selected : current \in Range(modules[id].Dependencies)
    /\ \E id \in selected \ BaseModules : TRUE

\* the direct and transitive dependencies of a module, registered or not
RECURSIVE DepsWithin(_, _)
DepsWithin(id, n) ==
    IF n = 0 \/ id \notin DOMAIN modules THEN {}
    ELSE Range(modules[id].Dependencies)
         \cup UNION {DepsWithin(d, n - 1) : d \in Range(modules[id].Dependencies)}

AllDeps(id) == DepsWithin(id, Cardinality(DOMAIN modules))

\* the step is a press of the toggle key on the row of a module that is
\* not selected and not required
ToggledOn ==
    /\ lastKey' = " "
    /\ current # ""
    /\ current \notin selected
    /\ current \notin BaseModules

\* C34: in the module picker, with an acyclic dependency graph, toggling an
\* unselected module on leaves that module and all its direct and transitive
\* dependencies selected.
C34_ToggleOnSelectsDeps ==
    [][ToggledOn => ({current} \cup AllDeps(current)) \subseteq selected']_vars

\* a module was toggled on whose dependency has a dependency of its own, and
\* all three are selected
C34_Witness ==
    /\ lastKey = " "
    /\ current \in selected
    /\ \E d \in Range(modules[current].Dependencies) :
          /\ d \in DOMAIN modules
          /\ d \notin BaseModules
          /\ \E e \in Range(modules[d].Dependencies) :
                /\ e \notin Range(modules[current].Dependencies)
                /\ {d, e} \subseteq selected
                /\ modules[current].Name \in requiredBy[d]

\* the step is a press of the toggle key on the row of a selected module
\* that is not required
ToggledOff ==
    /\ lastKey' = " "
    /\ current # ""
    /\ current \in selected
    /\ current \notin BaseModules

\* C37: in the module picker, toggling a selected module off changes the
\* selection of that module and of its dependencies only: every module that
\* is neither the one toggled off nor one of its direct or transitive
\* dependencies is selected after the key press iff it was before.
C37_ToggleOffFrame ==
    [][ToggledOff =>
          \A id \in DOMAIN modules \ ({current} \cup AllDeps(current)) :
              (id \in selected') <=> (id \in selected)]_vars

\* two modules without dependencies, neither a dependency of any module,
\* were selected, one was toggled off, and now neither is selected
C37_UnrelatedDeselected ==
    /\ lastKey = " "
    /\ current \notin selected
    /\ \E id \in DOMAIN modules \ (selected \cup {current}) :
          /\ modules[id].Dependencies = <<>> /\ modules[current].Dependencies = <<>>
          /\ \A m \in DOMAIN modules : {id, current} \cap Range(modules[m].Dependencies) = {}
          /\ BaseModules # {}

\* the events the NextMsg commands received that Update was not yet given
Undelivered == Len(received) - delivered

\* Update was given AllDoneMsg or RunErrorMsg
TerminalHandled ==
    \E k \in 1..delivered : k <= Len(received) /\ received[k].type \in {"AllDone", "RunError"}

\* at most one request for an event is under way, counting the command
\* that runs and the event that waits for Update; none before the
\* confirmation and none after AllDoneMsg or RunErrorMsg
OneRequest ==
    /\ pending + Undelivered <= 1
    /\ screen = screenPicker => pending = 0 /\ received = <<>>
    /\ TerminalHandled => pending = 0 /\ Undelivered = 0

\* a step in which Update is given an event of the Bridge: it is the
\* oldest event not yet handled, it is handled on the progress screen with
\* no request under way, and one NextMsg command is returned unless the
\* event is AllDoneMsg or RunErrorMsg
OneCommandPerEvent ==
    delivered' = delivered + 1 =>
        /\ screen = screenProgress
        /\ pending = 0
        /\ received' = received
        /\ Undelivered = 1
        /\ pending' = IF received[delivered'].type \in {"AllDone", "RunError"}
                      THEN 0 ELSE 1

\* C31: on the progress screen the wizard has at most one request for the
\* next event outstanding: it issues exactly one after handling each
\* ModuleStart, StepStart, StepDone or StepError and none after AllDone or
\* RunError, so the events are handled one at a time, in the order received.
C31_OneNextMsgOutstanding == []OneRequest /\ [][OneCommandPerEvent]_vars

\* on the progress screen, after two events were handled, one NextMsg
\* command is under way while the channel is full
C31_Witness ==
    /\ screen = screenProgress
    /\ ~exited
    /\ pending = 1 /\ Undelivered = 0
    /\ delivered >= 2
    /\ Len(msgs) = QueueCap

\* a step changes the screen only from the picker to the progress screen,
\* when Update is given the confirmation, and from the progress screen to
\* the summary, when Update is given AllDoneMsg or RunErrorMsg, whose
\* results or error the summary then holds; these messages always change it
ScreenMoves ==
    /\ screen = screenPicker /\ screen' # screen =>
          screen' = screenProgress /\ confirms' = confirms + 1
    /\ screen = screenPicker /\ confirms' = confirms + 1 => screen' = screenProgress
    /\ screen = screenProgress /\ screen' # screen =>
          /\ screen' = screenSummary
          /\ delivered' = delivered + 1
          /\ received[delivered'].type \in {"AllDone", "RunError"}
          /\ received[delivered'].type = "AllDone" =>
                summary'.results = received[delivered'].results
          /\ received[delivered'].type = "RunError" =>
                summary'.err = received[delivered'].err
    /\ screen = screenProgress /\ delivered' = delivered + 1
          /\ received[delivered'].type \in {"AllDone", "RunError"} =>
          screen' = screenSummary
    /\ screen = screenSummary => screen' = screenSummary

\* C32: the wizard starts on the picker; its screen moves from the picker
\* to the progress screen exactly when a picker confirmation is received,
\* from the progress screen to the summary exactly when AllDone (storing its
\* results) or RunError (storing its error) is received, and never back.
C32_ScreenForwardOnly == (screen = screenPicker) /\ [][ScreenMoves]_vars

\* the summary holds the results of a run, after a second confirmation
\* arrived when the picker had been left
C32_Witness ==
    /\ screen = screenSummary
    /\ summary.results # <<>>
    /\ summary.results = results
    /\ confirms = 2

====
